---- MODULE Spec2Model ----
(***************************************************************************)
(* Model of the simulation engine of opti-credit                           *)
(* (src/src/utils/calculations.ts): the loan calculator, runSimulation as  *)
(* a state machine with one step per loop iteration, and the break-even    *)
(* finders.                                                                *)
(*                                                                         *)
(* JavaScript numbers are modelled as decimal fixed-point numbers with     *)
(* SCALE units per 1: every multiplication and division rounds its exact   *)
(* result to the nearest representable value, so rounding error, the clamp *)
(* of a slightly negative capital and Math.round are real in the model.    *)
(* Integer counts (months, years, durations) are plain integers.           *)
(***************************************************************************)
EXTENDS Integers, Sequences, FiniteSets, TLC

\* ------------------------------------------------------------------------
\* Numbers
\* ------------------------------------------------------------------------

\* Units per 1 of a fixed-point number (4 decimals).
SCALE == 10000

\* The two non-finite results of a JavaScript division the model needs.
NaN == 0 - 2147483647
Infinity == 2147483647

IsFinite(x) == x # NaN /\ x # Infinity /\ x # 0 - Infinity

Num(i) == i * SCALE

\* JavaScript a + b and a - b where an operand may be non-finite.
Add(a, b) == IF ~IsFinite(a) \/ ~IsFinite(b) THEN NaN ELSE a + b

Sub(a, b) == IF ~IsFinite(a) \/ ~IsFinite(b) THEN NaN ELSE a - b

Abs(x) == IF x < 0 THEN 0 - x ELSE x

Sign(x) == IF x < 0 THEN 0 - 1 ELSE 1

\* a * b on non-negative fixed-point numbers, rounded half up, computed by
\* parts so that no intermediate product exceeds the result's range.
MulNN(a, b) ==
    LET a1 == a \div SCALE
        a0 == a % SCALE
        b1 == b \div SCALE
        b0 == b % SCALE
    IN  a1 * b1 * SCALE + a1 * b0 + a0 * b1 + (a0 * b0 + SCALE \div 2) \div SCALE

\* JavaScript a * b.
Mul(a, b) ==
    IF ~IsFinite(a) \/ ~IsFinite(b) THEN NaN
    ELSE Sign(a) * Sign(b) * MulNN(Abs(a), Abs(b))

\* r / b (0 <= r < b) to `digits` decimal digits, as an integer, rounded half up
\* on the last digit.
RECURSIVE LongDiv(_, _, _)
LongDiv(r, b, digits) ==
    IF digits = 0 THEN (IF 2 * r >= b THEN 1 ELSE 0)
    ELSE LET q == (r * 10) \div b
             rest == (r * 10) % b
         IN  q * (IF digits = 4 THEN 1000 ELSE IF digits = 3 THEN 100
                  ELSE IF digits = 2 THEN 10 ELSE 1)
             + LongDiv(rest, b, digits - 1)

\* a / n for a fixed-point a and an integer count n # 0, rounded half away from 0.
DivI(a, n) ==
    IF ~IsFinite(a) THEN a
    ELSE IF n = 0 THEN (IF a = 0 THEN NaN ELSE Sign(a) * Infinity)
    ELSE Sign(a) * Sign(n)
         * (Abs(a) \div Abs(n) + (IF 2 * (Abs(a) % Abs(n)) >= Abs(n) THEN 1 ELSE 0))

\* JavaScript a / b on fixed-point numbers.
Div(a, b) ==
    IF ~IsFinite(a) \/ ~IsFinite(b) THEN NaN
    ELSE IF b = 0 THEN (IF a = 0 THEN NaN ELSE Sign(a) * Infinity)
    ELSE LET q == Abs(a) \div Abs(b)
             r == Abs(a) % Abs(b)
         IN  Sign(a) * Sign(b) * (q * SCALE + LongDiv(r, Abs(b), 4))

\* Math.round: the nearest integer, halves towards +Infinity; the result is an
\* integer (not a fixed-point number).
MathRound(x) == (x + SCALE \div 2) \div SCALE

\* Math.pow(x, n) for an integer n >= 0, by squaring.
RECURSIVE PowN(_, _)
PowN(x, n) ==
    IF n = 0 THEN Num(1)
    ELSE IF n % 2 = 0 THEN LET h == PowN(x, n \div 2) IN Mul(h, h)
    ELSE Mul(PowN(x, n - 1), x)

\* Math.pow(x, n) for an integer n of either sign.
Pow(x, n) == IF n >= 0 THEN PowN(x, n) ELSE Div(Num(1), PowN(x, 0 - n))

\* Whether acc * y^n <= x, for y >= 0; for y >= 1 the products only grow, and
\* the computation stops as soon as one exceeds x.
RECURSIVE PowLeq(_, _, _, _)
PowLeq(y, n, x, acc) ==
    IF y >= Num(1) /\ acc > x THEN FALSE
    ELSE IF n = 0 THEN acc <= x
    ELSE PowLeq(y, n - 1, x, Mul(acc, y))

\* The largest y in lo..hi with y^n <= x (lo satisfies it), by bisection.
RECURSIVE RootSearch(_, _, _, _)
RootSearch(x, n, lo, hi) ==
    IF lo >= hi THEN lo
    ELSE LET mid == (lo + hi + 1) \div 2
         IN  IF PowLeq(mid, n, x, Num(1)) THEN RootSearch(x, n, mid, hi)
             ELSE RootSearch(x, n, lo, mid - 1)

\* The n-th root of a finite x >= 0, for n >= 1.
RootN(x, n) ==
    IF x >= Num(1) THEN RootSearch(x, n, Num(1), x)
    ELSE RootSearch(x, n, 0, Num(1))

\* Math.pow(x, 1 / n) for an integer n: x itself for n = 1 (the exponent is
\* exactly 1), NaN of a negative or non-finite x for any other n; for n = 0 the
\* exponent is Infinity.
Root(x, n) ==
    IF IsFinite(x) /\ n = 1 THEN x
    ELSE IF ~IsFinite(x) \/ x < 0 THEN NaN
    ELSE IF n = 0
         THEN (IF x > Num(1) THEN Infinity ELSE IF x = Num(1) THEN NaN ELSE 0)
    ELSE IF n > 0 THEN RootN(x, n)
    ELSE Div(Num(1), RootN(x, 0 - n))

\* ------------------------------------------------------------------------
\* Constants (src/src/constants/index.ts)
\* ------------------------------------------------------------------------

MAX_SIMULATION_MONTHS == 300

MONTHS_PER_YEAR == 12

\* ------------------------------------------------------------------------
\* Loan calculator and price helpers
\* ------------------------------------------------------------------------

calculateMonthlyPayment(amount, rate, duration) ==
    IF rate = 0 THEN DivI(amount, duration)
    ELSE LET monthlyRate == DivI(DivI(rate, 100), MONTHS_PER_YEAR)
         IN  Div(Mul(amount, monthlyRate),
                 Sub(Num(1), Pow(Num(1) + monthlyRate, 0 - duration)))

\* calculateAppreciationRate with the guard on years alone.
calculateAppreciationRateYearsOnly(currentPrice, futurePrice, years) ==
    IF years <= 0 THEN 0
    ELSE LET ratio == Div(futurePrice, currentPrice)
         IN  Mul(Sub(Root(ratio, years), Num(1)), Num(100))

calculateAppreciationRate(currentPrice, futurePrice, years) ==
    IF years <= 0 \/ currentPrice <= 0 THEN 0
    ELSE LET ratio == Div(futurePrice, currentPrice)
         IN  Mul(Sub(Root(ratio, years), Num(1)), Num(100))

\* calculateFuturePrice with simple instead of compound growth.
calculateFuturePriceSimple(currentPrice, appreciationRate, years) ==
    Num(MathRound(Mul(currentPrice,
                      Num(1) + years * DivI(appreciationRate, 100))))

\* The result is an integer number of currency units, kept as a number.
calculateFuturePrice(currentPrice, appreciationRate, years) ==
    Num(MathRound(Mul(currentPrice,
                      Pow(Num(1) + DivI(appreciationRate, 100), years))))

\* customExpenses.filter((e) => e.type === type)
filterByType(expenses, type) == SelectSeq(expenses, LAMBDA e : e.type = type)

\* expenses.reduce((sum, e) => sum + e.amount, 0), from the sum so far.
RECURSIVE reduceAmounts(_, _)
reduceAmounts(expenses, sum) ==
    IF expenses = <<>> THEN sum
    ELSE reduceAmounts(Tail(expenses), sum + Head(expenses).amount)

calculateTotalInitialExpenses(renovationCost, expenses) ==
    LET customInitial == reduceAmounts(filterByType(expenses, "initial"), 0)
    IN  renovationCost + customInitial

calculateTotalMonthlyExpenses(monthlyExtraCosts, expenses) ==
    LET customMonthly == reduceAmounts(filterByType(expenses, "monthly"), 0)
    IN  monthlyExtraCosts + customMonthly

\* calculateTotalYearlyExpenses filtering on the monthly tag.
calculateTotalYearlyExpensesOfMonthly(yearlyExtraCosts, expenses) ==
    LET customYearly == reduceAmounts(filterByType(expenses, "monthly"), 0)
    IN  yearlyExtraCosts + customYearly

calculateTotalYearlyExpenses(yearlyExtraCosts, expenses) ==
    LET customYearly == reduceAmounts(filterByType(expenses, "yearly"), 0)
    IN  yearlyExtraCosts + customYearly

\* amortizationMonths with the deferment forgotten.
amortizationMonthsFullDuration(loan) == loan.durationMonths

\* The duration the monthly payment is computed for.
amortizationMonths(loan) == loan.durationMonths - loan.deferredMonths

\* The LoanState object made of a Loan: the loan's own fields ({...loan}) plus
\* remainingCapital and monthlyPayment.
LoanStateOf(loan) ==
    [id |-> loan.id,
     amount |-> loan.amount,
     rate |-> loan.rate,
     durationMonths |-> loan.durationMonths,
     insuranceRate |-> loan.insuranceRate,
     deferredMonths |-> loan.deferredMonths,
     remainingCapital |-> loan.amount,
     monthlyPayment |->
        calculateMonthlyPayment(loan.amount, loan.rate,
                                amortizationMonths(loan))]

\* initializeLoansState writing the two fields into the caller's Loan objects
\* instead of into copies.
RECURSIVE initializeLoansStateInPlace(_, _)
initializeLoansStateInPlace(h, loans) ==
    IF loans = <<>> THEN [heap |-> h, refs |-> <<>>]
    ELSE LET made == [h EXCEPT ![Head(loans)] = LoanStateOf(h[Head(loans)])]
             rest == initializeLoansStateInPlace(made, Tail(loans))
         IN  [heap |-> rest.heap, refs |-> <<Head(loans)>> \o rest.refs]

\* loans.map(...) on a heap h of objects: one new object per loan, appended to
\* the heap; the result is the new heap and the array of the new references.
RECURSIVE initializeLoansState(_, _)
initializeLoansState(h, loans) ==
    IF loans = <<>> THEN [heap |-> h, refs |-> <<>>]
    ELSE LET made == Append(h, LoanStateOf(h[Head(loans)]))
             rest == initializeLoansState(made, Tail(loans))
         IN  [heap |-> rest.heap, refs |-> <<Len(made)>> \o rest.refs]

\* ------------------------------------------------------------------------
\* State
\* ------------------------------------------------------------------------

VARIABLES
    pc,                         \* "idle", "loop" (inside runSimulation), "done"
    heap,                       \* the Loan and LoanState objects, by reference
    params,                     \* the SimulationParams argument; loans are references
    totalInitialExpenses,
    totalMonthlyExpenses,
    totalYearlyExpenses,
    m,                          \* the loop counter of runSimulation
    currentPropertyVal,
    currentRent,
    tenantSavings,
    accumulatedTenantInterests,
    accumulatedOwnerCosts,
    accumulatedRunningCosts,
    accumulatedRent,
    loansState,                 \* the run's array of LoanState references
    currentMonthCapitalRepaid,  \* the loop body's locals, as of the last iteration
    currentMonthInterest,
    currentMonthInsurance,
    loanMonths,                 \* what each loan added in the last iteration
    currentMonthSunkCosts,
    ownerMonthlyCashOut,
    cashFlowDifference,
    monthlyData,
    yearlyData,
    completed,                  \* the calls that returned: arguments and result
    targetYear,                 \* the caller's target year
    targetData,                 \* and the data point it selected for it
    customExpenses,             \* the caller's custom expenses
    baseCosts,                  \* renovationCost, monthlyExtraCosts, yearlyExtraCosts
    expenseTotals,              \* the three totals computed from them
    futurePriceArgs,            \* the arguments of calculateFuturePrice
    manualTargetPrice,          \* and its result, the caller's target price
    data,                       \* the series given to the break-even finders
    breakEvenWealth,            \* the result of findBreakEvenWealth(data)
    breakEvenMonthly,           \* the result of findBreakEvenMonthly(data)
    helperPc,                   \* "idle", or "called" once a helper has returned
    appreciationArgs,           \* the arguments of calculateAppreciationRate
    appreciationRate,           \* and its result
    storedData,                 \* the hook's state: params, customExpenses, targetYear
    rendered,                   \* the state the current handlers were created with
    syncDeps,                   \* the dependencies the target price effect last ran with
    localStorage,               \* the item under the storage key, or undefined
    storageSynced,              \* the storage effect has run for this storedData object
    clock,                      \* Date.now(), in milliseconds
    lastHandler,                \* the handler called last
    inline                      \* the locals of the inline simulation of index.tsx

simVars ==
    <<pc, heap, params, totalInitialExpenses, totalMonthlyExpenses,
      totalYearlyExpenses, m, currentPropertyVal, currentRent, tenantSavings,
      accumulatedTenantInterests, accumulatedOwnerCosts, accumulatedRunningCosts,
      accumulatedRent, loansState, currentMonthCapitalRepaid, currentMonthInterest,
      currentMonthInsurance, loanMonths, currentMonthSunkCosts,
      ownerMonthlyCashOut, cashFlowDifference, monthlyData, yearlyData,
      completed>>

finderVars == <<data, breakEvenWealth, breakEvenMonthly>>

appreciationVars == <<appreciationArgs, appreciationRate>>

futurePriceVars == <<futurePriceArgs, manualTargetPrice>>

expenseVars == <<customExpenses, baseCosts, expenseTotals>>

targetVars == <<targetYear, targetData>>

hookVars ==
    <<storedData, rendered, syncDeps, localStorage, storageSynced, clock,
      lastHandler>>

inlineVars == <<inline>>

helperVars ==
    <<helperPc, finderVars, appreciationVars, futurePriceVars, expenseVars,
      targetVars, hookVars, inlineVars>>

vars == <<simVars, helperVars>>

\* ------------------------------------------------------------------------
\* Inputs: the arguments runSimulation is called with
\* ------------------------------------------------------------------------

\* The highest index of the parameter sets and of the loan portfolios tried.
MaxScenario == 4

MaxPortfolio == 5

Loan(id, amount, rate, durationMonths, insuranceRate, deferredMonths) ==
    [id |-> id, amount |-> amount, rate |-> rate,
     durationMonths |-> durationMonths, insuranceRate |-> insuranceRate,
     deferredMonths |-> deferredMonths]

\* Loan portfolios (amounts in currency units, rates in percent):
\* 0 none; 1 one amortizing loan over the whole horizon; 2 the default trio
\* (a zero-rate loan with 60 deferred months, a zero-rate loan, a standard
\* loan); 3 a loan with interest-only deferment; 4 a short zero-rate loan whose
\* last payment overshoots the remaining capital; 5 a loan deferred for 30 of
\* its 36 months, a zero-rate loan repaid after 24 months, a loan whose
\* deferment outlasts its duration and a loan deferred for its whole duration;
\* above 5, a short loan at 6%.
Portfolio(j) ==
    CASE j = 0 -> <<>>
      [] j = 1 -> <<Loan("standard", Num(27000), Num(3), 300, 3600, 0)>>
      [] j = 2 -> <<Loan("ptz", Num(7500), 0, 240, 3600, 60),
                    Loan("boost", Num(1500), 0, 240, 3600, 0),
                    Loan("standard", Num(17000), 12000, 300, 3600, 0)>>
      [] j = 3 -> <<Loan("standard", Num(15000), 24000, 120, 3000, 12)>>
      [] j = 4 -> <<Loan("boost", Num(20000), 0, 7, 0, 0)>>
      [] j = 5 -> <<Loan("standard", Num(6000), Num(6), 36, 2400, 30),
                    Loan("boost", Num(2400), 0, 24, 3600, 0),
                    Loan("ptz", Num(4000), Num(3), 6, 1200, 18),
                    Loan("ptz", Num(3000), Num(3), 12, 1200, 12)>>
      [] OTHER -> <<Loan("ptz", Num(1000 * j), Num(6), 12 * j, 1200, j)>>

\* Parameter sets: 1 the defaults scaled down (no appreciation); 2 an
\* appreciating property with extra expenses; 3 nothing paid up front, no
\* savings interest, rent equal to the condominium fees; 4 a property that
\* costs its owner much more than the rent; above 4, a depreciating property.
Scenario(i) ==
    CASE i = 1 ->
           [propertyPrice |-> Num(30000), notaryFees |-> Num(2250),
            propertyAppreciation |-> 0, agencyFeesPercent |-> Num(5),
            saleDiagnostics |-> Num(400), apportPersonnel |-> Num(2500),
            propertyTax |-> Num(120), condoFees |-> Num(18),
            monthlyRent |-> Num(95), savingsRate |-> Num(3),
            rentInflation |-> 15000,
            totalInitialExpenses |-> Num(800), totalMonthlyExpenses |-> 0,
            totalYearlyExpenses |-> 0]
      [] i = 2 ->
           [propertyPrice |-> Num(30000), notaryFees |-> Num(750),
            propertyAppreciation |-> Num(2), agencyFeesPercent |-> Num(4),
            saleDiagnostics |-> Num(300), apportPersonnel |-> Num(5000),
            propertyTax |-> Num(200), condoFees |-> Num(10),
            monthlyRent |-> Num(120), savingsRate |-> Num(2),
            rentInflation |-> Num(2),
            totalInitialExpenses |-> Num(500), totalMonthlyExpenses |-> Num(5),
            totalYearlyExpenses |-> Num(30)]
      [] i = 3 ->
           [propertyPrice |-> Num(20000), notaryFees |-> 0,
            propertyAppreciation |-> 0 - Num(1), agencyFeesPercent |-> Num(5),
            saleDiagnostics |-> 0, apportPersonnel |-> 0,
            propertyTax |-> 0, condoFees |-> Num(50),
            monthlyRent |-> Num(50), savingsRate |-> 0,
            rentInflation |-> 0,
            totalInitialExpenses |-> 0, totalMonthlyExpenses |-> 0,
            totalYearlyExpenses |-> 0]
      [] i = 4 ->
           [propertyPrice |-> Num(30000), notaryFees |-> Num(2250),
            propertyAppreciation |-> 0, agencyFeesPercent |-> Num(7),
            saleDiagnostics |-> Num(400), apportPersonnel |-> 0,
            propertyTax |-> Num(600), condoFees |-> Num(100),
            monthlyRent |-> Num(60), savingsRate |-> Num(4),
            rentInflation |-> 0,
            totalInitialExpenses |-> Num(1000), totalMonthlyExpenses |-> Num(20),
            totalYearlyExpenses |-> Num(120)]
      [] OTHER ->
           [propertyPrice |-> Num(10000 + 1000 * i), notaryFees |-> Num(100 * i),
            propertyAppreciation |-> 0 - Num(2), agencyFeesPercent |-> Num(3),
            saleDiagnostics |-> Num(100), apportPersonnel |-> Num(1000),
            propertyTax |-> Num(100), condoFees |-> Num(10 * i),
            monthlyRent |-> Num(80), savingsRate |-> 15000,
            rentInflation |-> Num(1),
            totalInitialExpenses |-> Num(300), totalMonthlyExpenses |-> Num(3),
            totalYearlyExpenses |-> Num(10)]

\* The references 1..n of the n loan objects the caller's heap starts with.
RECURSIVE Refs(_)
Refs(n) == IF n = 0 THEN <<>> ELSE Append(Refs(n - 1), n)

\* The SimulationParams object of scenario i with a portfolio of n loans.
ParamsOf(i, n) ==
    LET sc == Scenario(i)
    IN  [propertyPrice |-> sc.propertyPrice, notaryFees |-> sc.notaryFees,
         propertyAppreciation |-> sc.propertyAppreciation,
         agencyFeesPercent |-> sc.agencyFeesPercent,
         saleDiagnostics |-> sc.saleDiagnostics,
         apportPersonnel |-> sc.apportPersonnel,
         loans |-> Refs(n),
         propertyTax |-> sc.propertyTax, condoFees |-> sc.condoFees,
         monthlyRent |-> sc.monthlyRent, savingsRate |-> sc.savingsRate,
         rentInflation |-> sc.rentInflation]

\* The caller holds scenario i and portfolio j and has not called yet.
Idle(i, j) ==
    /\ pc = "idle"
    /\ heap = Portfolio(j)
    /\ params = ParamsOf(i, Len(Portfolio(j)))
    /\ totalInitialExpenses = Scenario(i).totalInitialExpenses
    /\ totalMonthlyExpenses = Scenario(i).totalMonthlyExpenses
    /\ totalYearlyExpenses = Scenario(i).totalYearlyExpenses
    /\ m = 0
    /\ currentPropertyVal = 0
    /\ currentRent = 0
    /\ tenantSavings = 0
    /\ accumulatedTenantInterests = 0
    /\ accumulatedOwnerCosts = 0
    /\ accumulatedRunningCosts = 0
    /\ accumulatedRent = 0
    /\ loansState = <<>>
    /\ currentMonthCapitalRepaid = 0
    /\ currentMonthInterest = 0
    /\ currentMonthInsurance = 0
    /\ loanMonths = <<>>
    /\ currentMonthSunkCosts = 0
    /\ ownerMonthlyCashOut = 0
    /\ cashFlowDifference = 0
    /\ monthlyData = <<>>
    /\ yearlyData = <<>>

\* JavaScript's undefined: what Array.prototype.find returns when no element
\* satisfies the predicate; no data point equals it.
undefined == [undefined |-> TRUE]

\* The finders have not been called, and have no series to scan.
FindersIdle ==
    /\ data = <<>>
    /\ breakEvenWealth = undefined
    /\ breakEvenMonthly = undefined

\* calculateAppreciationRate has not been called.
AppreciationIdle ==
    /\ appreciationArgs = [currentPrice |-> 0, futurePrice |-> 0, years |-> 0]
    /\ appreciationRate = 0

\* calculateFuturePrice has not been called.
FuturePriceIdle ==
    /\ futurePriceArgs =
          [currentPrice |-> 0, appreciationRate |-> 0, years |-> 0]
    /\ manualTargetPrice = 0

\* The caller has no custom expenses and has computed no totals.
ExpensesIdle ==
    /\ customExpenses = <<>>
    /\ baseCosts = [renovationCost |-> 0, monthlyExtraCosts |-> 0,
                    yearlyExtraCosts |-> 0]
    /\ expenseTotals = [initial |-> 0, monthly |-> 0, yearly |-> 0]

\* The caller has not selected a target data point.
TargetIdle ==
    /\ targetYear = 0
    /\ targetData = undefined

\* The hook is not mounted.
HookIdle ==
    /\ storedData = undefined
    /\ rendered = undefined
    /\ syncDeps = <<>>
    /\ localStorage = undefined
    /\ storageSynced = TRUE
    /\ clock = 0
    /\ lastHandler = "none"

\* The component has not computed simulationData.
InlineIdle == inline = undefined

HelpersIdle ==
    /\ helperPc = "idle"
    /\ FindersIdle
    /\ AppreciationIdle
    /\ FuturePriceIdle
    /\ ExpensesIdle
    /\ TargetIdle
    /\ HookIdle
    /\ InlineIdle

Init ==
    /\ \E i \in 1..MaxScenario, j \in 0..MaxPortfolio : Idle(i, j)
    /\ completed = <<>>
    /\ HelpersIdle

\* ------------------------------------------------------------------------
\* runSimulation
\* ------------------------------------------------------------------------

\* clampCapital without the clamp.
clampCapitalMissing(capital) == capital

\* if (loan.remainingCapital < 0) loan.remainingCapital = 0
clampCapital(capital) == IF capital < 0 THEN 0 ELSE capital

\* monthlyIns charged only while capital is owed.
monthlyInsWhileOwed(loan) ==
    IF loan.remainingCapital > 0
    THEN DivI(Mul(loan.amount, DivI(loan.insuranceRate, 100)), MONTHS_PER_YEAR)
    ELSE 0

\* (loan.amount * (loan.insuranceRate / 100)) / MONTHS_PER_YEAR
monthlyIns(loan) ==
    DivI(Mul(loan.amount, DivI(loan.insuranceRate, 100)), MONTHS_PER_YEAR)

\* withinDuration extended to any month in which capital is still owed.
withinDurationOrOwing(loan, mm) ==
    mm <= loan.durationMonths \/ loan.remainingCapital > 0

\* m <= loan.durationMonths
withinDuration(loan, mm) == mm <= loan.durationMonths

\* inDeferment ending one month early.
inDefermentStrict(loan, mm) == mm < loan.deferredMonths

\* m <= loan.deferredMonths
inDeferment(loan, mm) == mm <= loan.deferredMonths

\* The callback of loansState.forEach on one LoanState object in month mm: the
\* object as the callback leaves it and what it adds to the month's sums.
LoanMonth(loan, mm) ==
    LET interest == Mul(loan.remainingCapital,
                        DivI(DivI(loan.rate, 100), MONTHS_PER_YEAR))
        principal == loan.monthlyPayment - interest
        reduced == loan.remainingCapital - principal
        none == [loan |-> loan, insurance |-> monthlyIns(loan), interest |-> 0,
                 capitalRepaid |-> 0]
    IN  IF withinDuration(loan, mm)
        THEN IF inDeferment(loan, mm)
             THEN IF loan.rate > 0 /\ loan.deferredMonths > 0
                  THEN [none EXCEPT !.interest = interest]
                  ELSE none
             ELSE IF loan.remainingCapital > 0
                  THEN [loan |-> [loan EXCEPT !.remainingCapital =
                                      clampCapital(reduced)],
                        insurance |-> monthlyIns(loan),
                        interest |-> interest,
                        capitalRepaid |-> principal]
                  ELSE none
        ELSE none

\* One call of the callback on the object at ref: the sums so far (acc) with the
\* callback's contribution added and the object replaced in the heap.
addLoanMonth(acc, ref, one) ==
    [heap |-> [acc.heap EXCEPT ![ref] = one.loan],
     insurance |-> acc.insurance + one.insurance,
     interest |-> acc.interest + one.interest,
     capitalRepaid |-> acc.capitalRepaid + one.capitalRepaid,
     perLoan |-> Append(acc.perLoan,
                        [insurance |-> one.insurance, interest |-> one.interest,
                         capitalRepaid |-> one.capitalRepaid])]

\* loansState.forEach(...) in month mm: the callback applied to each reference
\* in array order, from the sums so far.
RECURSIVE loansForEachFrom(_, _, _)
loansForEachFrom(refs, acc, mm) ==
    IF refs = <<>> THEN acc
    ELSE loansForEachFrom(
             Tail(refs),
             addLoanMonth(acc, Head(refs), LoanMonth(acc.heap[Head(refs)], mm)),
             mm)

\* The month's sums start at 0 (let currentMonth... = 0) on heap h.
loansForEach(refs, h, mm) ==
    loansForEachFrom(refs,
                     [heap |-> h, insurance |-> 0, interest |-> 0,
                      capitalRepaid |-> 0, perLoan |-> <<>>],
                     mm)

\* sumRemainingCapital adding up the amounts borrowed.
RECURSIVE sumAmount(_, _)
sumAmount(refs, h) ==
    IF refs = <<>> THEN 0
    ELSE h[Head(refs)].amount + sumAmount(Tail(refs), h)

\* loansState.reduce((acc, loan) => acc + loan.remainingCapital, 0)
RECURSIVE sumRemainingCapital(_, _)
sumRemainingCapital(refs, h) ==
    IF refs = <<>> THEN 0
    ELSE h[Head(refs)].remainingCapital + sumRemainingCapital(Tail(refs), h)

\* parseFloat(x.toFixed(1)): x to one decimal, halves up.
toFixed1(x) == ((x + SCALE \div 20) \div (SCALE \div 10)) * (SCALE \div 10)

\* monthlyAppreciationRate with a default of 2% taken for a rate of 0
\* (propertyAppreciation || 2).
monthlyAppreciationRateOrDefault(propertyAppreciation) ==
    Root(Num(1) + DivI(IF propertyAppreciation = 0 THEN Num(2)
                       ELSE propertyAppreciation, 100),
         MONTHS_PER_YEAR) - Num(1)

\* Math.pow(1 + propertyAppreciation / 100, 1 / MONTHS_PER_YEAR) - 1
monthlyAppreciationRate(propertyAppreciation) ==
    Root(Num(1) + DivI(propertyAppreciation, 100), MONTHS_PER_YEAR) - Num(1)

\* isYearBoundary one month late.
isYearBoundaryLate(mm) == mm % MONTHS_PER_YEAR = 1

\* m % MONTHS_PER_YEAR === 0
isYearBoundary(mm) == mm % MONTHS_PER_YEAR = 0

\* loopContinues with an exit once every loan is repaid.
loopContinuesWhileDebt ==
    /\ m <= MAX_SIMULATION_MONTHS
    /\ ~(m > 1 /\ loansState # <<>>
         /\ \A i \in 1..Len(loansState) : heap[loansState[i]].remainingCapital = 0)

\* The loop condition m <= MAX_SIMULATION_MONTHS.
loopContinues == m <= MAX_SIMULATION_MONTHS

\* initialTenantSavings counting the price in place of the contribution.
initialTenantSavingsOfPrice ==
    params.propertyPrice + params.notaryFees + totalInitialExpenses

\* The tenant's starting capital.
initialTenantSavings ==
    params.apportPersonnel + params.notaryFees + totalInitialExpenses

\* rentInflates on the months that end a year.
rentInflatesAtYearEnd(mm) == mm % MONTHS_PER_YEAR = 0

\* m > 1 && (m - 1) % MONTHS_PER_YEAR === 0
rentInflates(mm) == mm > 1 /\ (mm - 1) % MONTHS_PER_YEAR = 0

\* earnsInterest whatever the balance.
earnsInterestAlways(balance) == TRUE

\* if (tenantSavings > 0)
earnsInterest(balance) == balance > 0

\* ownerMonthlyCashOutOf with the insurance left out.
ownerMonthlyCashOutUninsured(capitalRepaid, interest, insurance) ==
    capitalRepaid + interest
    + DivI(params.propertyTax, MONTHS_PER_YEAR)
    + params.condoFees + totalMonthlyExpenses
    + DivI(totalYearlyExpenses, MONTHS_PER_YEAR)

\* The owner's cash out of a month with these sums over the loans.
ownerMonthlyCashOutOf(capitalRepaid, interest, insurance) ==
    capitalRepaid + interest + insurance
    + DivI(params.propertyTax, MONTHS_PER_YEAR)
    + params.condoFees + totalMonthlyExpenses
    + DivI(totalYearlyExpenses, MONTHS_PER_YEAR)

\* sellingCostsOf with the agency fees taken on the purchase price.
sellingCostsOfPurchase(propertyVal) ==
    DivI(Mul(params.propertyPrice, params.agencyFeesPercent), 100)
    + params.saleDiagnostics

\* (currentPropertyVal * params.agencyFeesPercent) / 100 + params.saleDiagnostics
sellingCostsOf(propertyVal) ==
    DivI(Mul(propertyVal, params.agencyFeesPercent), 100)
    + params.saleDiagnostics

\* callLocals with accumulatedRent declared outside the function: it keeps
\* its value from one call to the next.
callLocalsShared ==
    /\ monthlyData' = <<>>
    /\ yearlyData' = <<>>
    /\ currentPropertyVal' = params.propertyPrice
    /\ currentRent' = params.monthlyRent
    /\ tenantSavings' = initialTenantSavings
    /\ accumulatedTenantInterests' = 0
    /\ accumulatedOwnerCosts' = params.notaryFees + totalInitialExpenses
    /\ accumulatedRunningCosts' = 0
    /\ accumulatedRent' = accumulatedRent

\* The declarations of runSimulation's locals.
callLocals ==
    /\ monthlyData' = <<>>
    /\ yearlyData' = <<>>
    /\ currentPropertyVal' = params.propertyPrice
    /\ currentRent' = params.monthlyRent
    /\ tenantSavings' = initialTenantSavings
    /\ accumulatedTenantInterests' = 0
    /\ accumulatedOwnerCosts' = params.notaryFees + totalInitialExpenses
    /\ accumulatedRunningCosts' = 0
    /\ accumulatedRent' = 0

\* Entry of runSimulation up to the loop: the locals and the run's loan states.
Call ==
    /\ pc = "idle"
    /\ pc' = "loop"
    /\ callLocals
    /\ LET made == initializeLoansState(heap, params.loans)
       IN  /\ heap' = made.heap
           /\ loansState' = made.refs
    /\ m' = 0
    /\ currentMonthCapitalRepaid' = 0
    /\ currentMonthInterest' = 0
    /\ currentMonthInsurance' = 0
    /\ loanMonths' = <<>>
    /\ currentMonthSunkCosts' = 0
    /\ ownerMonthlyCashOut' = 0
    /\ cashFlowDifference' = 0
    /\ UNCHANGED <<params, totalInitialExpenses, totalMonthlyExpenses,
                   totalYearlyExpenses, completed>>
    /\ UNCHANGED helperVars

\* The iteration m = 0: continue.
LoopSkip ==
    /\ pc = "loop"
    /\ loopContinues
    /\ m = 0
    /\ m' = m + 1
    /\ UNCHANGED <<pc, heap, params, totalInitialExpenses, totalMonthlyExpenses,
                   totalYearlyExpenses, currentPropertyVal, currentRent,
                   tenantSavings, accumulatedTenantInterests,
                   accumulatedOwnerCosts, accumulatedRunningCosts,
                   accumulatedRent, loansState, currentMonthCapitalRepaid,
                   currentMonthInterest, currentMonthInsurance,
                   loanMonths, currentMonthSunkCosts, ownerMonthlyCashOut,
                   cashFlowDifference, monthlyData, yearlyData, completed>>
    /\ UNCHANGED helperVars

\* One iteration of the loop body, for the month m >= 1.
LoopBody ==
    /\ pc = "loop"
    /\ loopContinues
    /\ m # 0
    /\ \E propertyVal \in
            {Mul(currentPropertyVal,
                 Num(1) + monthlyAppreciationRate(params.propertyAppreciation))},
          rent \in
            {IF rentInflates(m)
             THEN Mul(currentRent, Num(1) + DivI(params.rentInflation, 100))
             ELSE currentRent},
          each \in {loansForEach(loansState, heap, m)} :
       LET rentSum == accumulatedRent + rent
           debtRemaining == sumRemainingCapital(loansState, each.heap)
           sunkCosts == each.interest + each.insurance
                        + DivI(params.propertyTax, MONTHS_PER_YEAR)
                        + params.condoFees + totalMonthlyExpenses
                        + DivI(totalYearlyExpenses, MONTHS_PER_YEAR)
           runningCosts == accumulatedRunningCosts + sunkCosts
           ownerCosts == accumulatedOwnerCosts + sunkCosts
           cashOut == ownerMonthlyCashOutOf(each.capitalRepaid, each.interest,
                                            each.insurance)
           tenantMonthlyCashOut == rent
           difference == cashOut - tenantMonthlyCashOut
           monthlyInterestRate ==
               DivI(DivI(params.savingsRate, 100), MONTHS_PER_YEAR)
           interestEarnedThisMonth == Mul(tenantSavings, monthlyInterestRate)
           tenantInterests == IF earnsInterest(tenantSavings)
                              THEN accumulatedTenantInterests + interestEarnedThisMonth
                              ELSE accumulatedTenantInterests
           savings == (IF earnsInterest(tenantSavings)
                       THEN tenantSavings + interestEarnedThisMonth
                       ELSE tenantSavings) + difference
           sellingCosts == sellingCostsOf(propertyVal)
           ownerNetWealth == propertyVal - sellingCosts - debtRemaining
           totalAcquisition ==
               params.propertyPrice + params.notaryFees + totalInitialExpenses
           totalCostAbsolute ==
               totalAcquisition + runningCosts + sellingCosts - propertyVal
           monthlyCostOwner == DivI(totalCostAbsolute, m)
           monthlyCostTenant == DivI(rentSum, m)
           monthlyInterestsEarned == DivI(tenantInterests, m)
           dataPoint ==
               [month |-> m,
                year |-> toFixed1(DivI(Num(m), MONTHS_PER_YEAR)),
                ownerWealth |-> MathRound(ownerNetWealth),
                tenantWealth |-> MathRound(savings),
                monthlyCostOwner |-> MathRound(monthlyCostOwner),
                monthlyCostTenant |-> MathRound(monthlyCostTenant),
                monthlyInterestsEarned |-> MathRound(monthlyInterestsEarned),
                propertyValue |-> MathRound(propertyVal),
                netSalePrice |-> MathRound(propertyVal - sellingCosts),
                sellingCosts |-> MathRound(sellingCosts),
                debtRemaining |-> MathRound(debtRemaining),
                sunkCosts |-> MathRound(ownerCosts)]
       IN  /\ currentPropertyVal' = propertyVal
           /\ currentRent' = rent
           /\ accumulatedRent' = rentSum
           /\ heap' = each.heap
           /\ currentMonthCapitalRepaid' = each.capitalRepaid
           /\ currentMonthInterest' = each.interest
           /\ currentMonthInsurance' = each.insurance
           /\ loanMonths' = each.perLoan
           /\ currentMonthSunkCosts' = sunkCosts
           /\ accumulatedRunningCosts' = runningCosts
           /\ accumulatedOwnerCosts' = ownerCosts
           /\ ownerMonthlyCashOut' = cashOut
           /\ cashFlowDifference' = difference
           /\ accumulatedTenantInterests' = tenantInterests
           /\ tenantSavings' = savings
           /\ monthlyData' = Append(monthlyData, dataPoint)
           /\ yearlyData' =
                 IF isYearBoundary(m)
                 THEN Append(yearlyData,
                             [dataPoint EXCEPT !.year = DivI(Num(m), MONTHS_PER_YEAR)])
                 ELSE yearlyData
    /\ m' = m + 1
    /\ UNCHANGED <<pc, params, totalInitialExpenses, totalMonthlyExpenses,
                   totalYearlyExpenses, loansState, completed>>
    /\ UNCHANGED helperVars

\* The loop is over: runSimulation returns { monthlyData, yearlyData }; the
\* run's LoanState objects are no longer referenced.
Return ==
    /\ pc = "loop"
    /\ ~loopContinues
    /\ pc' = "done"
    /\ completed' = Append(completed,
                           [params |-> params,
                            loans |-> SubSeq(heap, 1, Len(params.loans)),
                            totalInitialExpenses |-> totalInitialExpenses,
                            totalMonthlyExpenses |-> totalMonthlyExpenses,
                            totalYearlyExpenses |-> totalYearlyExpenses,
                            monthlyData |-> monthlyData,
                            yearlyData |-> yearlyData])
    /\ loansState' = <<>>
    /\ heap' = SubSeq(heap, 1, Len(params.loans))
    /\ UNCHANGED <<params, totalInitialExpenses, totalMonthlyExpenses,
                   totalYearlyExpenses, m, currentPropertyVal, currentRent,
                   tenantSavings, accumulatedTenantInterests,
                   accumulatedOwnerCosts, accumulatedRunningCosts,
                   accumulatedRent, currentMonthCapitalRepaid,
                   currentMonthInterest, currentMonthInsurance,
                   loanMonths, currentMonthSunkCosts, ownerMonthlyCashOut,
                   cashFlowDifference, monthlyData, yearlyData>>
    /\ UNCHANGED helperVars

\* The highest target year tried; the lowest is -2.
MaxTargetYear == 27

\* find returning the last element satisfying pred instead of the first.
findLast(series, pred, i) ==
    IF \E k \in i..Len(series) : pred[k]
    THEN series[CHOOSE k \in i..Len(series) :
                   pred[k] /\ \A j \in (k + 1)..Len(series) : ~pred[j]]
    ELSE undefined

\* data.find(pred) from index i on, pred given by its value on each element:
\* the first element satisfying pred, or undefined.
find(series, pred, i) ==
    IF \E k \in i..Len(series) : pred[k]
    THEN series[CHOOSE k \in i..Len(series) :
                   pred[k] /\ \A j \in i..(k - 1) : ~pred[j]]
    ELSE undefined

\* wealthPredicate with a strict comparison.
wealthPredicateStrict(d) == d.month > 0 /\ d.ownerWealth > d.tenantWealth

wealthPredicate(d) == d.month > 0 /\ d.ownerWealth >= d.tenantWealth

monthlyPredicate(d) == d.month > 0 /\ d.monthlyCostOwner <= d.monthlyCostTenant

findBreakEvenWealth(series) ==
    find(series, [k \in DOMAIN series |-> wealthPredicate(series[k])], 1)

findBreakEvenMonthly(series) ==
    find(series, [k \in DOMAIN series |-> monthlyPredicate(series[k])], 1)

\* The owner is ahead at the target point: in wealth, in average monthly cost.
isWinnerWealth == targetData.ownerWealth > targetData.tenantWealth

isWinnerMonthly == targetData.monthlyCostOwner < targetData.monthlyCostTenant

\* The line the wealth card shows under its figures: 'Rentable a partir de
\* l'annee Y (Mois M)' for an owner not ahead who has a break-even point,
\* 'Jamais rentable sur 25 ans' for one who has none, 'Rentabilite atteinte'
\* for an owner ahead.
WealthBreakEvenInfo(isWinner, breakEven) ==
    IF ~isWinner /\ breakEven # undefined
    THEN [line |-> "Rentable", year |-> breakEven.year,
          month |-> breakEven.month]
    ELSE IF ~isWinner
    THEN [line |-> "Jamais rentable"]
    ELSE [line |-> "Rentabilite atteinte"]

\* The range of the target year slider.
MIN_HOLDING_YEARS == 1

MAX_HOLDING_YEARS == 25

\* array[index] of JavaScript for an integer index counted from 0: undefined
\* outside the array.
elementAt(array, index) ==
    IF index >= 0 /\ index < Len(array) THEN array[index + 1] ELSE undefined

\* targetDataIndex without the offset of 1.
targetDataIndexOfMonth(year) == year * MONTHS_PER_YEAR

targetDataIndex(year) == year * MONTHS_PER_YEAR - 1

\* monthlyData[targetDataIndex] || monthlyData[monthlyData.length - 1]: a data
\* point is an object, so only undefined is falsy.
targetDataOf(series, year) ==
    LET first == elementAt(series, targetDataIndex(year))
    IN  IF first # undefined THEN first
        ELSE elementAt(series, Len(series) - 1)

\* The caller, holding the returned series, selects the point of its target
\* year and looks for the two break-even points of the series.
SelectTargetData ==
    /\ pc = "done"
    /\ helperPc = "idle"
    /\ helperPc' = "called"
    /\ \E year \in (0 - 2)..MaxTargetYear :
          /\ targetYear' = year
          /\ targetData' = targetDataOf(monthlyData, year)
    /\ breakEvenWealth' = findBreakEvenWealth(monthlyData)
    /\ breakEvenMonthly' = findBreakEvenMonthly(monthlyData)
    /\ UNCHANGED <<simVars, hookVars, inlineVars, data, appreciationVars,
                   futurePriceVars, expenseVars>>

Next == Call \/ LoopSkip \/ LoopBody \/ Return \/ SelectTargetData

Spec == Init /\ [][Next]_vars

\* ------------------------------------------------------------------------
\* Repeated calls: the caller calls runSimulation again after it returned
\* ------------------------------------------------------------------------

\* How many calls one behaviour makes.
MaxRuns == 3

\* The inputs tried in repeated calls, as <<scenario, portfolio>>.
RunInputs == {<<2, 2>>, <<3, 4>>}

InitRuns ==
    /\ \E in \in RunInputs : Idle(in[1], in[2])
    /\ completed = <<>>
    /\ HelpersIdle

\* The caller calls again with the very objects of the previous call.
CallAgainSame ==
    /\ pc = "done"
    /\ Len(completed) < MaxRuns
    /\ pc' = "idle"
    /\ UNCHANGED <<heap, params, totalInitialExpenses, totalMonthlyExpenses,
                   totalYearlyExpenses, m, currentPropertyVal, currentRent,
                   tenantSavings, accumulatedTenantInterests,
                   accumulatedOwnerCosts, accumulatedRunningCosts,
                   accumulatedRent, loansState, currentMonthCapitalRepaid,
                   currentMonthInterest, currentMonthInsurance,
                   loanMonths, currentMonthSunkCosts, ownerMonthlyCashOut,
                   cashFlowDifference, monthlyData, yearlyData, completed>>
    /\ UNCHANGED helperVars

\* The caller calls again with newly built arguments.
CallAgainNew ==
    /\ pc = "done"
    /\ Len(completed) < MaxRuns
    /\ pc' = "idle"
    /\ \E in \in RunInputs :
          /\ heap' = Portfolio(in[2])
          /\ params' = ParamsOf(in[1], Len(Portfolio(in[2])))
          /\ totalInitialExpenses' = Scenario(in[1]).totalInitialExpenses
          /\ totalMonthlyExpenses' = Scenario(in[1]).totalMonthlyExpenses
          /\ totalYearlyExpenses' = Scenario(in[1]).totalYearlyExpenses
    /\ UNCHANGED <<m, currentPropertyVal, currentRent,
                   tenantSavings, accumulatedTenantInterests,
                   accumulatedOwnerCosts, accumulatedRunningCosts,
                   accumulatedRent, loansState, currentMonthCapitalRepaid,
                   currentMonthInterest, currentMonthInsurance,
                   loanMonths, currentMonthSunkCosts, ownerMonthlyCashOut,
                   cashFlowDifference, monthlyData, yearlyData, completed>>
    /\ UNCHANGED helperVars

NextRuns == Call \/ LoopSkip \/ LoopBody \/ Return \/ CallAgainSame \/ CallAgainNew

SpecRuns == InitRuns /\ [][NextRuns]_vars

\* ------------------------------------------------------------------------
\* Break-even finders
\* ------------------------------------------------------------------------

\* The longest series tried and the highest value of a point's fields.
MaxSeriesLen == 3

MaxField == 1

\* A data point of month mm with the four fields the finders read.
Point(mm, ow, tw, co, ct) ==
    [month |-> mm, year |-> toFixed1(DivI(Num(mm), MONTHS_PER_YEAR)),
     ownerWealth |-> ow, tenantWealth |-> tw,
     monthlyCostOwner |-> co, monthlyCostTenant |-> ct,
     monthlyInterestsEarned |-> 0, propertyValue |-> 0, netSalePrice |-> 0,
     sellingCosts |-> 0, debtRemaining |-> 0, sunkCosts |-> 0]

\* The month-ascending series of n points (months 1..n) over the field values.
RECURSIVE SeriesOfLen(_)
SeriesOfLen(n) ==
    IF n = 0 THEN {<<>>}
    ELSE {Append(prefix, Point(n, ow, tw, co, ct)) :
            prefix \in SeriesOfLen(n - 1),
            ow \in {0 - 1, MaxField}, tw \in {0, MaxField},
            co \in {0, MaxField}, ct \in {0 - 1, MaxField}}

\* The caller holds a series.
InitFinders ==
    /\ Idle(1, 0)
    /\ completed = <<>>
    /\ helperPc = "idle"
    /\ \E n \in 0..MaxSeriesLen : data \in SeriesOfLen(n)
    /\ breakEvenWealth = undefined
    /\ breakEvenMonthly = undefined
    /\ AppreciationIdle
    /\ FuturePriceIdle
    /\ ExpensesIdle
    /\ TargetIdle
    /\ HookIdle
    /\ InlineIdle

\* The caller scans its series with both finders.
FindBreakEven ==
    /\ helperPc = "idle"
    /\ helperPc' = "called"
    /\ breakEvenWealth' = findBreakEvenWealth(data)
    /\ breakEvenMonthly' = findBreakEvenMonthly(data)
    /\ UNCHANGED <<simVars, hookVars, inlineVars, data, appreciationVars, futurePriceVars,
                   expenseVars, targetVars>>

SpecFinders == InitFinders /\ [][FindBreakEven]_vars

\* ------------------------------------------------------------------------
\* Appreciation helper
\* ------------------------------------------------------------------------

\* The highest number of years and the highest price step tried.
MaxYears == 3

MaxPriceStep == 3

\* The caller holds a current price, a target price and a number of years.
InitAppreciation ==
    /\ Idle(1, 0)
    /\ completed = <<>>
    /\ helperPc = "idle"
    /\ FindersIdle
    /\ \E c \in (0 - 1)..MaxPriceStep, f \in (0 - 1)..MaxPriceStep,
          y \in (0 - 1)..MaxYears :
          appreciationArgs = [currentPrice |-> Num(1000 * c),
                              futurePrice |-> Num(1500 * f), years |-> y]
    /\ appreciationRate = 0
    /\ FuturePriceIdle
    /\ ExpensesIdle
    /\ TargetIdle
    /\ HookIdle
    /\ InlineIdle

\* The caller computes the rate matching its target price.
CallAppreciationRate ==
    /\ helperPc = "idle"
    /\ helperPc' = "called"
    /\ appreciationRate' =
          calculateAppreciationRate(appreciationArgs.currentPrice,
                                    appreciationArgs.futurePrice,
                                    appreciationArgs.years)
    /\ UNCHANGED <<simVars, hookVars, inlineVars, finderVars, appreciationArgs, futurePriceVars,
                   expenseVars, targetVars>>

SpecAppreciation == InitAppreciation /\ [][CallAppreciationRate]_vars

\* ------------------------------------------------------------------------
\* Target price and appreciation rate kept consistent
\* ------------------------------------------------------------------------

\* The highest price step and the highest rate step tried.
MaxTargetPriceStep == 4

MaxRateStep == 6

\* Prices of 1 and 3 currency units and of some hundreds.
RoundTripPrices == {Num(1), Num(3)} \cup {Num(250 * k) : k \in 1..MaxTargetPriceStep}

\* Yearly rates in percent: -150, -100, and -50 to 40 and beyond in steps of 15.
RoundTripRates ==
    {0 - Num(150), 0 - Num(100)} \cup {Num(15 * k) - Num(50) : k \in 0..MaxRateStep}

\* The caller holds a price, an appreciation rate and a target year.
InitRoundTrip ==
    /\ Idle(1, 0)
    /\ completed = <<>>
    /\ helperPc = "idle"
    /\ FindersIdle
    /\ AppreciationIdle
    /\ \E c \in RoundTripPrices, r \in RoundTripRates, y \in 1..MaxYears :
          futurePriceArgs = [currentPrice |-> c, appreciationRate |-> r,
                             years |-> y]
    /\ manualTargetPrice = 0
    /\ ExpensesIdle
    /\ TargetIdle
    /\ HookIdle
    /\ InlineIdle

\* The effect that synchronises the target price with the parameters.
SyncTargetPrice ==
    /\ helperPc = "idle"
    /\ helperPc' = "synced"
    /\ manualTargetPrice' =
          calculateFuturePrice(futurePriceArgs.currentPrice,
                               futurePriceArgs.appreciationRate,
                               futurePriceArgs.years)
    /\ UNCHANGED <<simVars, hookVars, inlineVars, finderVars, appreciationVars, futurePriceArgs,
                   expenseVars, targetVars>>

\* The target price is fed back: the rate is computed from it.
FeedBackTargetPrice ==
    /\ helperPc = "synced"
    /\ helperPc' = "called"
    /\ appreciationArgs' = [currentPrice |-> futurePriceArgs.currentPrice,
                            futurePrice |-> manualTargetPrice,
                            years |-> futurePriceArgs.years]
    /\ appreciationRate' =
          calculateAppreciationRate(futurePriceArgs.currentPrice,
                                    manualTargetPrice,
                                    futurePriceArgs.years)
    /\ UNCHANGED <<simVars, hookVars, inlineVars, finderVars, futurePriceVars, expenseVars,
                   targetVars>>

NextRoundTrip == SyncTargetPrice \/ FeedBackTargetPrice

SpecRoundTrip == InitRoundTrip /\ [][NextRoundTrip]_vars

\* ------------------------------------------------------------------------
\* Expense totals
\* ------------------------------------------------------------------------

\* The longest list of custom expenses tried.
MaxExpenses == 3

\* The three recurrence tags of ExpenseType.
ExpenseTypes == {"initial", "monthly", "yearly"}

\* A CustomExpense object.
CustomExpense(id, amount, type) ==
    [id |-> id, name |-> "expense", amount |-> amount, type |-> type]

\* The lists of n custom expenses: any tag, an amount of 50 or of 1.2345.
RECURSIVE ExpensesOfLen(_)
ExpensesOfLen(n) ==
    IF n = 0 THEN {<<>>}
    ELSE {Append(prefix, CustomExpense(n, amount, type)) :
            prefix \in ExpensesOfLen(n - 1),
            amount \in {Num(50), 12345}, type \in ExpenseTypes}

\* The caller holds its base costs and a list of custom expenses.
InitExpenses ==
    /\ Idle(1, 0)
    /\ completed = <<>>
    /\ helperPc = "idle"
    /\ FindersIdle
    /\ AppreciationIdle
    /\ FuturePriceIdle
    /\ \E n \in 0..MaxExpenses : customExpenses \in ExpensesOfLen(n)
    /\ baseCosts \in {[renovationCost |-> 0, monthlyExtraCosts |-> 0,
                        yearlyExtraCosts |-> 0],
                       [renovationCost |-> Num(800), monthlyExtraCosts |-> Num(20),
                        yearlyExtraCosts |-> Num(120)]}
    /\ expenseTotals = [initial |-> 0, monthly |-> 0, yearly |-> 0]
    /\ TargetIdle
    /\ HookIdle
    /\ InlineIdle

\* The three memoised totals are computed.
ComputeExpenseTotals ==
    /\ helperPc = "idle"
    /\ helperPc' = "called"
    /\ expenseTotals' =
          [initial |-> calculateTotalInitialExpenses(baseCosts.renovationCost,
                                                    customExpenses),
           monthly |-> calculateTotalMonthlyExpenses(baseCosts.monthlyExtraCosts,
                                                    customExpenses),
           yearly |-> calculateTotalYearlyExpenses(baseCosts.yearlyExtraCosts,
                                                  customExpenses)]
    /\ UNCHANGED <<simVars, hookVars, inlineVars, finderVars, appreciationVars, futurePriceVars,
                   customExpenses, baseCosts, targetVars>>

SpecExpenses == InitExpenses /\ [][ComputeExpenseTotals]_vars

\* ------------------------------------------------------------------------
\* The hook's state: useSimulation over useLocalStorage
\* ------------------------------------------------------------------------

DEFAULT_TARGET_YEAR == 4

\* Math.round(propertyPrice * (notaryFeesPercent / 100))
calculateNotaryFees(propertyPrice, notaryFeesPercent) ==
    Num(MathRound(Mul(propertyPrice, DivI(notaryFeesPercent, 100))))

calculateStandardLoanAmount(price, apport, ptzAmount, boostAmount) ==
    LET amount == price - apport - ptzAmount - boostAmount
    IN  IF amount > 0 THEN amount ELSE 0

\* params.loans.find((l) => l.id === id)?.amount ?? 0
loanAmount(loans, id) ==
    IF \E k \in DOMAIN loans : loans[k].id = id
    THEN loans[CHOOSE k \in DOMAIN loans :
                  /\ loans[k].id = id
                  /\ \A j \in 1..(k - 1) : loans[j].id # id].amount
    ELSE 0

\* prev.loans.map((loan) => loan.id === "standard" ? {...loan, amount} : loan)
withStandardAmount(loans, newStandardAmount) ==
    [k \in DOMAIN loans |->
        IF loans[k].id = "standard"
        THEN [loans[k] EXCEPT !.amount = newStandardAmount]
        ELSE loans[k]]

\* The value the hook gives useLocalStorage as initialValue: the default
\* parameters (those the handlers read or write, amounts a thousandth of the
\* defaults' order), no custom expenses, the default target year.
initialValue ==
    [params |->
        [propertyPrice |-> Num(500),
         notaryFees |-> Num(38),
         notaryFeesPercent |-> 75000,
         propertyAppreciation |-> 0,
         apportPersonnel |-> Num(100),
         loans |-> <<Loan("ptz", Num(100), 0, 240, 3600, 60),
                     Loan("boost", Num(50), 0, 240, 3600, 0),
                     Loan("standard", Num(250), 11800, 300, 3600, 0)>>],
     customExpenses |-> <<>>,
     targetYear |-> DEFAULT_TARGET_YEAR]

\* What a render sees, and its handlers keep: storedData and manualTargetPrice.
renderOf(data_, price) == [storedData |-> data_, manualTargetPrice |-> price]

\* The dependency list of the target price effect.
syncDepsOf(data_) ==
    <<data_.targetYear, data_.params.propertyPrice,
      data_.params.propertyAppreciation>>

\* syncEffectDue looking at the target year alone.
syncEffectDueOnYear(deps, lastDeps) == deps[1] # lastDeps[1]

\* React runs an effect after a render whose dependencies differ from those of
\* the effect's last run.
syncEffectDue(deps, lastDeps) == deps # lastDeps

\* Every render has been committed and every effect has run.
Settled ==
    /\ storedData # undefined
    /\ rendered = renderOf(storedData, manualTargetPrice)
    /\ syncDeps = syncDepsOf(storedData)
    /\ storageSynced

\* The variables the hook does not touch.
outsideHook ==
    <<simVars, helperPc, finderVars, appreciationVars, futurePriceArgs,
      expenseVars, targetVars, inlineVars>>

\* The hook is mounted on an empty storage: the state is initialValue, the
\* first render is committed and its effects have run.
InitHook ==
    /\ Idle(1, 0)
    /\ completed = <<>>
    /\ helperPc = "idle"
    /\ FindersIdle
    /\ AppreciationIdle
    /\ futurePriceArgs =
          [currentPrice |-> 0, appreciationRate |-> 0, years |-> 0]
    /\ ExpensesIdle
    /\ TargetIdle
    /\ storedData = initialValue
    /\ manualTargetPrice =
          calculateFuturePrice(initialValue.params.propertyPrice,
                               initialValue.params.propertyAppreciation,
                               initialValue.targetYear)
    /\ rendered = renderOf(storedData, manualTargetPrice)
    /\ syncDeps = syncDepsOf(storedData)
    /\ localStorage = storedData
    /\ storageSynced = TRUE
    /\ clock = 0
    /\ lastHandler = "none"
    /\ InlineIdle

\* React commits a render of the current state: the handlers are created anew
\* with it, then the effects whose dependencies changed run: the target price
\* is set from the parameters, storedData is written under the storage key.
Render ==
    /\ storedData # undefined
    /\ ~Settled
    /\ rendered' = renderOf(storedData, manualTargetPrice)
    /\ manualTargetPrice' =
          IF syncEffectDue(syncDepsOf(storedData), syncDeps)
          THEN calculateFuturePrice(storedData.params.propertyPrice,
                                    storedData.params.propertyAppreciation,
                                    storedData.targetYear)
          ELSE manualTargetPrice
    /\ syncDeps' = syncDepsOf(storedData)
    /\ localStorage' = IF storageSynced THEN localStorage ELSE storedData
    /\ storageSynced' = TRUE
    /\ UNCHANGED <<storedData, clock, lastHandler, outsideHook>>

\* handleReset: after the confirmation, reset() sets the state to the render's
\* initialValue object, a new object for useState, and removes the item.
handleReset(confirmed) ==
    /\ lastHandler' = IF confirmed THEN "handleReset" ELSE "handleReset declined"
    /\ IF confirmed
       THEN /\ storedData' = initialValue
            /\ storageSynced' = FALSE
            /\ localStorage' = undefined
       ELSE UNCHANGED <<storedData, storageSynced, localStorage>>
    /\ UNCHANGED <<manualTargetPrice, rendered, syncDeps, clock, outsideHook>>

\* handlePropertyPriceChange: the fees and the standard amount are computed
\* from the params of the handler's render, and set in the current state.
handlePropertyPriceChange(price) ==
    LET closure == rendered.storedData.params
        newNotaryFees == calculateNotaryFees(price, closure.notaryFeesPercent)
        ptzAmount == loanAmount(closure.loans, "ptz")
        boostAmount == loanAmount(closure.loans, "boost")
        newStandardAmount ==
            calculateStandardLoanAmount(price, closure.apportPersonnel,
                                        ptzAmount, boostAmount)
    IN  /\ storedData' =
              [storedData EXCEPT
                  !.params.propertyPrice = price,
                  !.params.notaryFees = newNotaryFees,
                  !.params.loans = withStandardAmount(@, newStandardAmount)]
        /\ storageSynced' = FALSE
        /\ lastHandler' = "handlePropertyPriceChange"
        /\ UNCHANGED <<manualTargetPrice, rendered, syncDeps, localStorage,
                       clock, outsideHook>>

\* handleApportChange: the standard amount is computed from the property
\* price of the handler's render.
handleApportChange(apport) ==
    LET closure == rendered.storedData.params
        ptzAmount == loanAmount(closure.loans, "ptz")
        boostAmount == loanAmount(closure.loans, "boost")
        newStandardAmount ==
            calculateStandardLoanAmount(closure.propertyPrice, apport,
                                        ptzAmount, boostAmount)
    IN  /\ storedData' =
              [storedData EXCEPT
                  !.params.apportPersonnel = apport,
                  !.params.loans = withStandardAmount(@, newStandardAmount)]
        /\ storageSynced' = FALSE
        /\ lastHandler' = "handleApportChange"
        /\ UNCHANGED <<manualTargetPrice, rendered, syncDeps, localStorage,
                       clock, outsideHook>>

\* handleYearChange: the year is set; for a positive year the rate is
\* recomputed from the price and the target price of the handler's render.
handleYearChange(newYear) ==
    LET closure == rendered
        newRate ==
            calculateAppreciationRate(closure.storedData.params.propertyPrice,
                                      closure.manualTargetPrice, newYear)
    IN  /\ storedData' =
              IF newYear > 0
              THEN [storedData EXCEPT !.targetYear = newYear,
                                      !.params.propertyAppreciation = newRate]
              ELSE [storedData EXCEPT !.targetYear = newYear]
        /\ storageSynced' = FALSE
        /\ lastHandler' = "handleYearChange"
        /\ UNCHANGED <<manualTargetPrice, rendered, syncDeps, localStorage,
                       clock, outsideHook>>

\* handleTargetPriceChange: the target price is set; for a positive target
\* year of the handler's render the rate is recomputed from it.
handleTargetPriceChange(price) ==
    LET closure == rendered.storedData
        newRate ==
            calculateAppreciationRate(closure.params.propertyPrice, price,
                                      closure.targetYear)
    IN  /\ manualTargetPrice' = price
        /\ IF closure.targetYear > 0
           THEN /\ storedData' =
                      [storedData EXCEPT !.params.propertyAppreciation = newRate]
                /\ storageSynced' = FALSE
           ELSE UNCHANGED <<storedData, storageSynced>>
        /\ lastHandler' = "handleTargetPriceChange"
        /\ UNCHANGED <<rendered, syncDeps, localStorage, clock, outsideHook>>

\* Date.now().toString()
generateUniqueId == ToString(clock)

\* addCustomExpense: nothing without a name or a positive amount; otherwise
\* the expense is appended with a generated id.
addCustomExpense(name, amount, type) ==
    /\ IF name = "" \/ amount <= 0
       THEN UNCHANGED <<storedData, storageSynced>>
       ELSE LET newExpense == [id |-> generateUniqueId, name |-> name,
                               amount |-> amount, type |-> type]
            IN  /\ storedData' =
                      [storedData EXCEPT
                          !.customExpenses = Append(@, newExpense)]
                /\ storageSynced' = FALSE
    /\ lastHandler' = "addCustomExpense"
    /\ UNCHANGED <<manualTargetPrice, rendered, syncDeps, localStorage, clock,
                   outsideHook>>

\* removeCustomExpense: prev.filter((e) => e.id !== id)
removeCustomExpense(id) ==
    /\ storedData' =
          [storedData EXCEPT
              !.customExpenses = SelectSeq(@, LAMBDA e : e.id # id)]
    /\ storageSynced' = FALSE
    /\ lastHandler' = "removeCustomExpense"
    /\ UNCHANGED <<manualTargetPrice, rendered, syncDeps, localStorage, clock,
                   outsideHook>>

\* The highest price step the handlers are called with.
MaxHookPrice == 5

\* Property prices of 0, 400 and 500; target prices of 0 and of 300 to 750.
PropertyPrices == {0} \cup {Num(100 * k) : k \in 4..MaxHookPrice}

TargetPrices == {0} \cup {Num(150 * k) : k \in 2..MaxHookPrice}

\* The user moves the year slider, types a target price or a property price,
\* one event at a time: React has committed the render and run the effects of
\* an event before the next one is handled.
YearChanged ==
    /\ Settled
    /\ \E newYear \in 0..MaxYears : handleYearChange(newYear)

TargetPriceChanged ==
    /\ Settled
    /\ \E price \in TargetPrices : handleTargetPriceChange(price)

PropertyPriceChanged ==
    /\ Settled
    /\ \E price \in PropertyPrices : handlePropertyPriceChange(price)

NextTargetPrice ==
    YearChanged \/ TargetPriceChanged \/ PropertyPriceChanged \/ Render

SpecTargetPrice == InitHook /\ [][NextTargetPrice]_vars

\* The last millisecond of the clock.
MaxClock == 2

\* Time passes: Date.now() advances by a millisecond.
Tick ==
    /\ storedData # undefined
    /\ clock < MaxClock
    /\ clock' = clock + 1
    /\ UNCHANGED <<storedData, manualTargetPrice, rendered, syncDeps,
                   localStorage, storageSynced, lastHandler, outsideHook>>

\* The expense form is submitted, with or without a name and an amount.
ExpenseAdded ==
    /\ storedData # undefined
    /\ Len(storedData.customExpenses) < MaxExpenses
    /\ \E name \in {"", "garage"}, amount \in {0, Num(50)},
          type \in {"monthly", "yearly"} :
          addCustomExpense(name, amount, type)

\* The remove button of a listed expense is pressed.
ExpenseRemoved ==
    /\ storedData # undefined
    /\ \E k \in DOMAIN storedData.customExpenses :
          removeCustomExpense(storedData.customExpenses[k].id)

NextExpenseList == Tick \/ ExpenseAdded \/ ExpenseRemoved \/ Render

SpecExpenseList == InitHook /\ [][NextExpenseList]_vars

\* Personal contributions of 0, 100 and 200.
Apports == {Num(100 * k) : k \in 0..2}

\* handlePropertyPriceChange and handleApportChange are called, by the form or
\* by a caller that holds the handlers of a render: possibly several times
\* before React commits the next render.
PropertyPriceCalled ==
    /\ storedData # undefined
    /\ \E price \in PropertyPrices : handlePropertyPriceChange(price)

ApportCalled ==
    /\ storedData # undefined
    /\ \E apport \in Apports : handleApportChange(apport)

NextLoanAmounts == PropertyPriceCalled \/ ApportCalled \/ Render

SpecLoanAmounts == InitHook /\ [][NextLoanAmounts]_vars

\* The reset button is pressed and the confirmation is given or declined.
ResetCalled ==
    /\ storedData # undefined
    /\ \E confirmed \in BOOLEAN : handleReset(confirmed)

NextReset == PropertyPriceCalled \/ ApportCalled \/ ResetCalled \/ Render

SpecReset == InitHook /\ [][NextReset]_vars

\* ------------------------------------------------------------------------
\* The original inline simulation of index.tsx, run beside runSimulation
\* ------------------------------------------------------------------------

\* calculateMonthlyPayment of index.tsx.
inlineMonthlyPayment(amount, rate, duration) ==
    IF rate = 0 THEN DivI(amount, duration)
    ELSE LET monthlyRate == DivI(DivI(rate, 100), 12)
         IN  Div(Mul(amount, monthlyRate),
                 Sub(Num(1), Pow(Num(1) + monthlyRate, 0 - duration)))

\* params.loans.map((loan) => ({...loan, remainingCapital, monthlyPayment}))
inlineLoansState(loans) ==
    [k \in DOMAIN loans |->
        [id |-> loans[k].id,
         amount |-> loans[k].amount,
         rate |-> loans[k].rate,
         durationMonths |-> loans[k].durationMonths,
         insuranceRate |-> loans[k].insuranceRate,
         deferredMonths |-> loans[k].deferredMonths,
         remainingCapital |-> loans[k].amount,
         monthlyPayment |->
            inlineMonthlyPayment(loans[k].amount, loans[k].rate,
                                 loans[k].durationMonths
                                    - loans[k].deferredMonths)]]

\* The locals of the useMemo callback before its loop.
inlineStart(p, initialExpenses, loans) ==
    [pc |-> "loop",
     m |-> 0,
     currentPropertyVal |-> p.propertyPrice,
     currentRent |-> p.monthlyRent,
     tenantSavings |-> p.apportPersonnel + p.notaryFees + initialExpenses,
     accumulatedTenantInterests |-> 0,
     accumulatedOwnerCosts |-> p.notaryFees + initialExpenses,
     accumulatedRunningCosts |-> 0,
     accumulatedRent |-> 0,
     loansState |-> inlineLoansState(loans),
     monthlyData |-> <<>>,
     yearlyData |-> <<>>]

\* The forEach callback on one loan in month mm: the loan as it is left and
\* what is added to the month's three sums.
inlineLoanMonth(loan, mm) ==
    LET insuranceOfMonth == DivI(Mul(loan.amount, DivI(loan.insuranceRate, 100)), 12)
        interest == Mul(loan.remainingCapital, DivI(DivI(loan.rate, 100), 12))
        principal == loan.monthlyPayment - interest
        lowered == loan.remainingCapital - principal
        none == [loan |-> loan, insurance |-> insuranceOfMonth, interest |-> 0,
                 capitalRepaid |-> 0]
    IN  IF mm <= loan.durationMonths
        THEN IF mm <= loan.deferredMonths
             THEN IF loan.rate > 0 /\ loan.deferredMonths > 0
                  THEN [none EXCEPT !.interest = interest]
                  ELSE none
             ELSE IF loan.remainingCapital > 0
                  THEN [loan |-> [loan EXCEPT !.remainingCapital =
                                      IF lowered < 0 THEN 0 ELSE lowered],
                        insurance |-> insuranceOfMonth,
                        interest |-> interest,
                        capitalRepaid |-> principal]
                  ELSE none
        ELSE none

\* loansState.forEach(...) from loan k on, the sums so far in acc.
RECURSIVE inlineForEach(_, _, _, _)
inlineForEach(loans, acc, k, mm) ==
    IF k > Len(loans) THEN acc
    ELSE LET one == inlineLoanMonth(loans[k], mm)
         IN  inlineForEach(loans,
                           [loans |-> Append(acc.loans, one.loan),
                            insurance |-> acc.insurance + one.insurance,
                            interest |-> acc.interest + one.interest,
                            capitalRepaid |-> acc.capitalRepaid
                                              + one.capitalRepaid],
                           k + 1, mm)

\* loansState.reduce((acc, loan) => acc + loan.remainingCapital, 0)
RECURSIVE inlineDebt(_, _)
inlineDebt(loans, acc) ==
    IF loans = <<>> THEN acc
    ELSE inlineDebt(Tail(loans), acc + Head(loans).remainingCapital)

\* inlineRentInflates on every month after the first.
inlineRentInflatesMonthly(mm) == mm > 1

\* m > 1 && (m - 1) % 12 === 0
inlineRentInflates(mm) == mm > 1 /\ (mm - 1) % 12 = 0

\* The else branch of the loop body for the month s.m >= 1, on the locals s.
inlineMonth(s, p, initial, monthly, yearly, propertyVal, rent, each) ==
    LET rentSum == s.accumulatedRent + rent
        debtRemaining == inlineDebt(each.loans, 0)
        monthSunkCosts ==
            each.interest + each.insurance + DivI(p.propertyTax, 12)
            + p.condoFees + monthly + DivI(yearly, 12)
        runningCosts == s.accumulatedRunningCosts + monthSunkCosts
        ownerCosts == s.accumulatedOwnerCosts + monthSunkCosts
        ownerCashOut ==
            each.capitalRepaid + each.interest + each.insurance
            + DivI(p.propertyTax, 12) + p.condoFees + monthly
            + DivI(yearly, 12)
        difference == ownerCashOut - rent
        monthlyInterestRate == DivI(DivI(p.savingsRate, 100), 12)
        interestEarnedThisMonth == Mul(s.tenantSavings, monthlyInterestRate)
        tenantInterests ==
            IF s.tenantSavings > 0
            THEN s.accumulatedTenantInterests + interestEarnedThisMonth
            ELSE s.accumulatedTenantInterests
        savings ==
            (IF s.tenantSavings > 0
             THEN s.tenantSavings + interestEarnedThisMonth
             ELSE s.tenantSavings) + difference
        sellingCosts ==
            DivI(Mul(propertyVal, p.agencyFeesPercent), 100) + p.saleDiagnostics
        ownerNetWealth == propertyVal - sellingCosts - debtRemaining
        totalAcquisition == p.propertyPrice + p.notaryFees + initial
        totalCostAbsolute ==
            totalAcquisition + runningCosts + sellingCosts - propertyVal
        dataPoint ==
            [month |-> s.m,
             year |-> toFixed1(DivI(Num(s.m), 12)),
             ownerWealth |-> MathRound(ownerNetWealth),
             tenantWealth |-> MathRound(savings),
             monthlyCostOwner |-> MathRound(DivI(totalCostAbsolute, s.m)),
             monthlyCostTenant |-> MathRound(DivI(rentSum, s.m)),
             monthlyInterestsEarned |-> MathRound(DivI(tenantInterests, s.m)),
             propertyValue |-> MathRound(propertyVal),
             netSalePrice |-> MathRound(propertyVal - sellingCosts),
             sellingCosts |-> MathRound(sellingCosts),
             debtRemaining |-> MathRound(debtRemaining),
             sunkCosts |-> MathRound(ownerCosts)]
    IN  [pc |-> "loop",
         m |-> s.m + 1,
         currentPropertyVal |-> propertyVal,
         currentRent |-> rent,
         tenantSavings |-> savings,
         accumulatedTenantInterests |-> tenantInterests,
         accumulatedOwnerCosts |-> ownerCosts,
         accumulatedRunningCosts |-> runningCosts,
         accumulatedRent |-> rentSum,
         loansState |-> each.loans,
         monthlyData |-> Append(s.monthlyData, dataPoint),
         yearlyData |->
            IF s.m % 12 = 0
            THEN Append(s.yearlyData,
                        [dataPoint EXCEPT !.year = DivI(Num(s.m), 12)])
            ELSE s.yearlyData]

\* The two computations are at the same point of their loops.
inlineAbreast == inline # undefined /\ inline.pc = pc /\ inline.m = m

\* The component starts with the arguments runSimulation will get.
InitInline ==
    /\ \E i \in 1..MaxScenario, j \in 0..MaxPortfolio : Idle(i, j)
    /\ completed = <<>>
    /\ helperPc = "idle"
    /\ FindersIdle
    /\ AppreciationIdle
    /\ FuturePriceIdle
    /\ ExpensesIdle
    /\ TargetIdle
    /\ HookIdle
    /\ inline = [pc |-> "idle", m |-> 0]

\* runSimulation advances when the inline computation has caught up.
EngineCall == inlineAbreast /\ Call

EngineSkip == inlineAbreast /\ LoopSkip

EngineMonth == inlineAbreast /\ LoopBody

EngineReturn == inlineAbreast /\ Return

\* The useMemo callback up to its loop.
InlineCall ==
    /\ inline # undefined
    /\ inline.pc = "idle"
    /\ pc = "loop"
    /\ inline' = inlineStart(params, totalInitialExpenses,
                             [k \in DOMAIN params.loans |-> heap[params.loans[k]]])
    /\ UNCHANGED <<simVars, helperPc, finderVars, appreciationVars,
                   futurePriceVars, expenseVars, targetVars, hookVars>>

\* The iteration m = 0: the empty branch.
InlineSkip ==
    /\ inline # undefined
    /\ inline.pc = "loop"
    /\ inline.m = 0
    /\ m = 1
    /\ inline' = [inline EXCEPT !.m = 1]
    /\ UNCHANGED <<simVars, helperPc, finderVars, appreciationVars,
                   futurePriceVars, expenseVars, targetVars, hookVars>>

\* One iteration of the inline loop, for the month inline.m in 1..300.
InlineMonth ==
    /\ inline # undefined
    /\ inline.pc = "loop"
    /\ inline.m >= 1
    /\ inline.m <= 300
    /\ m = inline.m + 1
    /\ \E propertyVal \in
            {Mul(inline.currentPropertyVal,
                 Num(1) + (Root(Num(1) + DivI(params.propertyAppreciation, 100),
                                12)
                           - Num(1)))},
          rent \in
            {IF inlineRentInflates(inline.m)
             THEN Mul(inline.currentRent, Num(1) + DivI(params.rentInflation, 100))
             ELSE inline.currentRent},
          each \in
            {inlineForEach(inline.loansState,
                           [loans |-> <<>>, insurance |-> 0, interest |-> 0,
                            capitalRepaid |-> 0],
                           1, inline.m)} :
          inline' = inlineMonth(inline, params, totalInitialExpenses,
                                totalMonthlyExpenses, totalYearlyExpenses,
                                propertyVal, rent, each)
    /\ UNCHANGED <<simVars, helperPc, finderVars, appreciationVars,
                   futurePriceVars, expenseVars, targetVars, hookVars>>

\* The loop is over (m = 301): { monthlyData, yearlyData } is returned.
InlineReturn ==
    /\ inline # undefined
    /\ inline.pc = "loop"
    /\ inline.m > 300
    /\ pc = "done"
    /\ inline' = [inline EXCEPT !.pc = "done", !.m = m]
    /\ UNCHANGED <<simVars, helperPc, finderVars, appreciationVars,
                   futurePriceVars, expenseVars, targetVars, hookVars>>

NextInline ==
    \/ EngineCall \/ EngineSkip \/ EngineMonth \/ EngineReturn
    \/ InlineCall \/ InlineSkip \/ InlineMonth \/ InlineReturn

SpecInline == InitInline /\ [][NextInline]_vars

\* ------------------------------------------------------------------------
\* Properties
\* ------------------------------------------------------------------------

\* The set of elements of a sequence.
Range(seq) == {seq[i] : i \in 1..Len(seq)}

\* The number of loop-body iterations done: the loop counter is one ahead of
\* the last month computed.
ticksDone == IF m = 0 THEN 0 ELSE m - 1

\* C1: inside the loop, after tick k (k = 0..300) monthlyData holds exactly k
\* points with months 1..k in ascending order and yearlyData holds floor(k/12)
\* points, so month 0 is never emitted; the call returns with exactly 300
\* monthly and 25 yearly points, whatever the loans' state and whether or not
\* a break-even was reached.
C1_FixedHorizon ==
    /\ pc \in {"loop", "done"} =>
          /\ Len(monthlyData) = ticksDone
          /\ \A i \in 1..Len(monthlyData) : monthlyData[i].month = i
          /\ Len(yearlyData) = ticksDone \div MONTHS_PER_YEAR
    /\ pc = "done" =>
          /\ Len(monthlyData) = 300
          /\ Len(yearlyData) = 25

\* A call returned all 300 points although its loans were repaid and the owner
\* had overtaken the tenant well before the end.
C1_Witness ==
    /\ pc = "done"
    /\ params.loans # <<>>
    /\ Len(monthlyData) = 300
    /\ \E i \in 1..200 :
          /\ monthlyData[i].debtRemaining = 0
          /\ monthlyData[i].ownerWealth >= monthlyData[i].tenantWealth

\* C2: the i-th yearly point is the monthly point of month 12*i with its year
\* set to the integer i; a returned result has the 25 of them.
C2_YearlyIsMonthlyAtBoundary ==
    /\ \A i \in 1..Len(yearlyData) :
          /\ 12 * i <= Len(monthlyData)
          /\ yearlyData[i] = [monthlyData[12 * i] EXCEPT !.year = Num(i)]
    /\ pc = "done" => Len(yearlyData) = 25

\* A returned result whose yearly points are the months 12, 24, ..., 300.
C2_Witness ==
    /\ pc = "done"
    /\ Len(yearlyData) = 25
    /\ \A i \in 1..25 : yearlyData[i].month = 12 * i

\* C3: in every step of a call, no loan's remainingCapital is negative
\* afterwards, and a loop-body step for a month m of a loan's amortization
\* phase (deferredMonths < m <= durationMonths) does not increase it.
C3_CapitalNonNegativeNonIncreasing ==
    [][pc' = "loop" =>
         \A i \in 1..Len(loansState') :
            LET after == heap'[loansState'[i]]
            IN  /\ after.remainingCapital >= 0
                /\ (pc = "loop" /\ m >= 1 /\ m' = m + 1
                    /\ after.deferredMonths < m /\ m <= after.durationMonths)
                   => after.remainingCapital <= heap[loansState[i]].remainingCapital
    ]_vars

\* The last payment of a zero-rate loan was larger than the capital left: the
\* payments made add up to more than the amount, and the capital is 0.
C3_Witness ==
    /\ pc = "loop"
    /\ \E i \in 1..Len(loansState) :
          LET loan == heap[loansState[i]]
          IN  /\ loan.rate = 0
              /\ loan.deferredMonths = 0
              /\ m - 1 = loan.durationMonths
              /\ loan.monthlyPayment * loan.durationMonths > loan.amount
              /\ currentMonthCapitalRepaid = loan.monthlyPayment
              /\ loan.remainingCapital = 0

\* C4: over a month-ascending series, findBreakEvenWealth returns the point of
\* the smallest month with ownerWealth >= tenantWealth and findBreakEvenMonthly
\* the point of the smallest month with monthlyCostOwner <= monthlyCostTenant;
\* each returns undefined exactly when no point satisfies its own predicate.
C4_BreakEvenIsFirst ==
    helperPc = "called" =>
       LET wealth == {i \in 1..Len(data) :
                        data[i].ownerWealth >= data[i].tenantWealth}
           monthly == {i \in 1..Len(data) :
                         data[i].monthlyCostOwner <= data[i].monthlyCostTenant}
       IN  /\ (wealth = {}) <=> (breakEvenWealth = undefined)
           /\ \A i \in wealth :
                 (\A j \in wealth : i <= j) => breakEvenWealth = data[i]
           /\ (monthly = {}) <=> (breakEvenMonthly = undefined)
           /\ \A i \in monthly :
                 (\A j \in monthly : i <= j) => breakEvenMonthly = data[i]

\* A wealth break-even found at the second of three points, on equal wealths,
\* while no point is a monthly-cost break-even.
C4_Witness ==
    /\ helperPc = "called"
    /\ Len(data) = 3
    /\ breakEvenMonthly = undefined
    /\ breakEvenWealth # undefined
    /\ breakEvenWealth = data[2]
    /\ data[2].ownerWealth = data[2].tenantWealth
    /\ data[3].ownerWealth >= data[3].tenantWealth

\* The arguments of a returned call.
argsOf(call) ==
    <<call.params, call.loans, call.totalInitialExpenses,
      call.totalMonthlyExpenses, call.totalYearlyExpenses>>

\* C5: any two calls given identical params (loans included) and identical
\* totals returned identical monthlyData and yearlyData, whatever calls were
\* made before or between them.
C5_Deterministic ==
    \A a, b \in 1..Len(completed) :
       argsOf(completed[a]) = argsOf(completed[b]) =>
          /\ completed[a].monthlyData = completed[b].monthlyData
          /\ completed[a].yearlyData = completed[b].yearlyData

\* Three calls returned: the first and the third with the same arguments, the
\* second with other arguments and another result.
C5_Witness ==
    /\ Len(completed) = 3
    /\ argsOf(completed[1]) = argsOf(completed[3])
    /\ argsOf(completed[1]) # argsOf(completed[2])
    /\ completed[1].monthlyData # completed[2].monthlyData
    /\ Len(completed[3].monthlyData) = 300

\* C6: no step of a call changes its inputs: params, the totals and every Loan
\* object of params.loans keep their values (and their fields); the loan
\* states in use are objects of the run's own, one per loan, none of them a
\* caller's Loan, and each starts at remainingCapital = amount.
C6_InputsUnchanged ==
    [][/\ params' = params
       /\ totalInitialExpenses' = totalInitialExpenses
       /\ totalMonthlyExpenses' = totalMonthlyExpenses
       /\ totalYearlyExpenses' = totalYearlyExpenses
       /\ \A r \in Range(params.loans) : heap'[r] = heap[r]
       /\ pc' = "loop" =>
             /\ Len(loansState') = Len(params.loans)
             /\ Range(loansState') \cap Range(params.loans) = {}
             /\ pc = "idle" =>
                   \A i \in 1..Len(loansState') :
                      heap'[loansState'[i]].remainingCapital
                         = heap[params.loans[i]].amount
    ]_vars

\* A run has written a lower remainingCapital on one of its loan states.
C6_Witness ==
    /\ pc = "loop"
    /\ \E i \in 1..Len(loansState) :
          /\ heap[loansState[i]].remainingCapital > 0
          /\ heap[loansState[i]].remainingCapital < heap[params.loans[i]].amount

\* C7: with propertyAppreciation = 0, every monthly point's propertyValue is
\* the purchase price, rounded.
C7_FlatPropertyValue ==
    params.propertyAppreciation = 0 =>
       \A i \in 1..Len(monthlyData) :
          monthlyData[i].propertyValue = MathRound(params.propertyPrice)

\* A returned run of 300 points of a property of 30000 that does not appreciate.
C7_Witness ==
    /\ pc = "done"
    /\ params.propertyAppreciation = 0
    /\ Len(monthlyData) = 300
    /\ monthlyData[300].propertyValue = 30000

\* C8: with apportPersonnel = 0, notaryFees = 0, totalInitialExpenses = 0 and
\* savingsRate = 0, the tenant's savings start at 0, and a month whose
\* cashFlowDifference is 0 leaves savings of 0 at 0 and emits tenantWealth = 0;
\* so tenantWealth is 0 in every point as long as every month's
\* cashFlowDifference is 0.
C8_TenantWealthStaysZero ==
    [][(/\ params.apportPersonnel = 0
        /\ params.notaryFees = 0
        /\ totalInitialExpenses = 0
        /\ params.savingsRate = 0
        /\ pc' = "loop"
        /\ pc = "idle" \/ tenantSavings = 0
        /\ cashFlowDifference' = 0)
       => /\ tenantSavings' = 0
          /\ Len(monthlyData') > Len(monthlyData) =>
                monthlyData'[Len(monthlyData')].tenantWealth = 0
    ]_vars

\* A returned run under these conditions: the owner paid exactly the rent in
\* the last month as before, and all 300 points have tenantWealth = 0.
C8_Witness ==
    /\ pc = "done"
    /\ params.apportPersonnel = 0
    /\ params.notaryFees = 0
    /\ totalInitialExpenses = 0
    /\ params.savingsRate = 0
    /\ ownerMonthlyCashOut = currentRent
    /\ ownerMonthlyCashOut > 0
    /\ cashFlowDifference = 0
    /\ Len(monthlyData) = 300
    /\ \A i \in 1..300 : monthlyData[i].tenantWealth = 0

\* C9: every loan state of a loan with rate = 0 has monthlyPayment =
\* amount / (durationMonths - deferredMonths), and starts the loop with
\* remainingCapital = amount.
C9_ZeroRatePayment ==
    pc = "loop" =>
       \A i \in 1..Len(loansState) :
          LET loan == heap[loansState[i]]
          IN  loan.rate = 0 =>
                 /\ loan.monthlyPayment
                       = DivI(loan.amount, loan.durationMonths - loan.deferredMonths)
                 /\ m = 0 => loan.remainingCapital = loan.amount

\* A zero-rate loan of 7500 over 240 months, 60 of them deferred: the payment
\* is 7500 / 180 = 41.6667.
C9_Witness ==
    /\ pc = "loop"
    /\ m = 0
    /\ \E i \in 1..Len(loansState) :
          LET loan == heap[loansState[i]]
          IN  /\ loan.rate = 0
              /\ loan.amount = Num(7500)
              /\ loan.durationMonths = 240
              /\ loan.deferredMonths = 60
              /\ loan.remainingCapital = Num(7500)
              /\ loan.monthlyPayment = 416667

\* C10: calculateAppreciationRate returns 0, a finite number, whenever
\* years <= 0 or currentPrice <= 0, whatever the future price.
C10_DegenerateRateIsZero ==
    (/\ helperPc = "called"
     /\ appreciationArgs.years <= 0 \/ appreciationArgs.currentPrice <= 0)
    => /\ appreciationRate = 0
       /\ IsFinite(appreciationRate)

\* The call with a current price of 0, where the ratio would be a division by
\* zero, and a positive number of years.
C10_Witness ==
    /\ helperPc = "called"
    /\ appreciationArgs.currentPrice = 0
    /\ appreciationArgs.futurePrice > 0
    /\ appreciationArgs.years > 0
    /\ appreciationRate = 0

\* The smaller of two numbers.
Min(a, b) == IF a <= b THEN a ELSE b

\* C11: for currentPrice > 0, years >= 1, a rate above -100 and a computed
\* future price of at least 1, the rate recovered from the computed future
\* price is finite and differs from the original rate by at most
\* 100 / min(currentPrice, future price) percentage points.
C11_RoundTripWithinPriceTolerance ==
    (/\ helperPc = "called"
     /\ futurePriceArgs.currentPrice > 0
     /\ futurePriceArgs.years >= 1
     /\ futurePriceArgs.appreciationRate > 0 - Num(100)
     /\ manualTargetPrice >= Num(1))
    => /\ IsFinite(appreciationRate)
       /\ Abs(appreciationRate - futurePriceArgs.appreciationRate)
             <= Div(Num(100),
                    Min(futurePriceArgs.currentPrice, manualTargetPrice))

\* A price of 1000 growing by 40% a year for 3 years: the rate recovered from
\* the future price of 2744 is within a hundredth of a point of 40.
C11_Witness ==
    /\ helperPc = "called"
    /\ futurePriceArgs.currentPrice = Num(1000)
    /\ futurePriceArgs.appreciationRate = Num(40)
    /\ futurePriceArgs.years = 3
    /\ manualTargetPrice = Num(2744)
    /\ Abs(appreciationRate - Num(40)) <= 100

\* C11 as stated: for every currentPrice > 0, years > 0 and rate, the recovered
\* rate is within a small tolerance (here a whole percentage point) of the
\* original rate.
C11_RoundTripWithinOnePoint ==
    (/\ helperPc = "called"
     /\ futurePriceArgs.currentPrice > 0
     /\ futurePriceArgs.years > 0)
    => /\ IsFinite(appreciationRate)
       /\ Abs(appreciationRate - futurePriceArgs.appreciationRate) <= Num(1)

\* The sum of the amounts of the custom expenses at the positions in S.
RECURSIVE AmountsAt(_)
AmountsAt(S) ==
    IF S = {} THEN 0
    ELSE LET i == CHOOSE i \in S : TRUE
         IN  customExpenses[i].amount + AmountsAt(S \ {i})

\* The positions of the custom expenses of a type.
PositionsOf(type) == {i \in 1..Len(customExpenses) : customExpenses[i].type = type}

\* The rearrangements of the list of custom expenses.
Rearranged ==
    LET n == Len(customExpenses)
    IN  {[i \in 1..n |-> customExpenses[f[i]]] :
           f \in {g \in [1..n -> 1..n] : \A i, j \in 1..n : g[i] = g[j] => i = j}}

C13_TargetDataOrLast ==
    (pc = "done" /\ helperPc = "called") =>
       /\ targetData # undefined
       /\ targetData \in Range(monthlyData)
       /\ IF targetYear * 12 - 1 \in 0..(Len(monthlyData) - 1)
          THEN /\ targetData = monthlyData[targetYear * 12]
               /\ targetData.month = targetYear * 12
          ELSE /\ targetData = monthlyData[Len(monthlyData)]
               /\ targetData.month = 300

\* A target year of 0, whose index is -1: the point selected is that of
\* month 300.
C13_Witness ==
    /\ pc = "done"
    /\ helperPc = "called"
    /\ targetYear = 0
    /\ targetData # undefined
    /\ targetData.month = 300
    /\ targetData = monthlyData[300]

\* The sum of a field over the first k records of a sequence.
RECURSIVE SumOf(_, _, _)
SumOf(seq, field, k) ==
    IF k = 0 THEN 0 ELSE SumOf(seq, field, k - 1) + seq[k][field]

\* The month's charges that do not depend on the loans.
monthlyCharges ==
    DivI(params.propertyTax, 12) + params.condoFees + totalMonthlyExpenses
    + DivI(totalYearlyExpenses, 12)

\* C14: after every tick, each loan has added amount * (insuranceRate / 100)
\* / 12 to the month's insurance, whatever its status; the month's insurance
\* is the sum of these, and it is part of the month's sunk cost and of the
\* owner's cash out.
C14_InsuranceEveryMonth ==
    (pc \in {"loop", "done"} /\ ticksDone >= 1) =>
       /\ Len(loanMonths) = Len(params.loans)
       /\ \A i \in 1..Len(loanMonths) :
             LET loan == heap[params.loans[i]]
             IN  loanMonths[i].insurance
                    = DivI(Mul(loan.amount, DivI(loan.insuranceRate, 100)), 12)
       /\ currentMonthInsurance = SumOf(loanMonths, "insurance", Len(loanMonths))
       /\ currentMonthSunkCosts
             = currentMonthInterest + currentMonthInsurance + monthlyCharges
       /\ ownerMonthlyCashOut
             = currentMonthCapitalRepaid + currentMonthInterest
               + currentMonthInsurance + monthlyCharges

\* A month in which one loan is in deferment and another, repaid in full, is
\* past its duration: both were charged their insurance.
C14_Witness ==
    /\ pc = "loop"
    /\ ticksDone >= 1
    /\ \E i, j \in 1..Len(loansState) :
          LET deferred == heap[loansState[i]]
              repaid == heap[loansState[j]]
          IN  /\ ticksDone <= deferred.deferredMonths
              /\ ticksDone <= deferred.durationMonths
              /\ loanMonths[i].insurance > 0
              /\ ticksDone > repaid.durationMonths
              /\ repaid.remainingCapital = 0
              /\ loanMonths[j].insurance > 0
              /\ currentMonthInsurance
                    >= loanMonths[i].insurance + loanMonths[j].insurance

\* The capital owed on the first k loan states of the run.
RECURSIVE CapitalOwed(_)
CapitalOwed(k) ==
    IF k = 0 THEN 0
    ELSE CapitalOwed(k - 1) + heap[loansState[k]].remainingCapital

\* C15: inside the loop, the point emitted by the last tick has debtRemaining
\* equal to the rounded sum of the loans' remainingCapital as the tick left
\* them; with no loans, every point has debtRemaining = 0.
C15_DebtIsSumOfCapital ==
    /\ (pc = "loop" /\ ticksDone >= 1) =>
          monthlyData[ticksDone].debtRemaining
             = MathRound(CapitalOwed(Len(loansState)))
    /\ params.loans = <<>> =>
          \A i \in 1..Len(monthlyData) : monthlyData[i].debtRemaining = 0

\* Three loans partly repaid: the debt of the point just emitted is below the
\* amount borrowed and is the sum of what the three still owe.
C15_Witness ==
    /\ pc = "loop"
    /\ ticksDone >= 100
    /\ Len(loansState) = 3
    /\ \A i \in 1..3 :
          /\ heap[loansState[i]].remainingCapital > 0
          /\ heap[loansState[i]].remainingCapital < heap[loansState[i]].amount
    /\ monthlyData[ticksDone].debtRemaining
          = MathRound(heap[loansState[1]].remainingCapital
                      + heap[loansState[2]].remainingCapital
                      + heap[loansState[3]].remainingCapital)

\* A step is the tick of month m.
IsTick == pc = "loop" /\ m >= 1 /\ m' = m + 1

\* The interest of one month on a loan's remaining capital.
MonthInterest(loan) ==
    Mul(loan.remainingCapital, DivI(DivI(loan.rate, 100), 12))

\* C16: in the tick of a month m <= deferredMonths, a loan's remainingCapital
\* is left unchanged and no principal is counted for it; interest on its
\* remaining capital is counted when rate > 0 and m <= durationMonths, and no
\* interest otherwise: none in the months after durationMonths of a loan
\* whose deferment outlasts its duration.
C16_DefermentWithinDuration ==
    [][IsTick =>
         \A i \in 1..Len(loansState) :
            LET before == heap[loansState[i]]
                after == heap'[loansState[i]]
            IN  m <= before.deferredMonths =>
                   /\ after.remainingCapital = before.remainingCapital
                   /\ loanMonths'[i].capitalRepaid = 0
                   /\ loanMonths'[i].interest
                         = IF before.rate > 0 /\ m <= before.durationMonths
                           THEN MonthInterest(before)
                           ELSE 0
    ]_vars

\* A month in which a loan at 6% in deferment was charged interest on its whole
\* amount and repaid nothing, while a loan at 3% past its duration but still
\* within its deferred months was charged no interest.
C16_Witness ==
    /\ pc = "loop"
    /\ ticksDone >= 1
    /\ \E i, j \in 1..Len(loansState) :
          LET deferred == heap[loansState[i]]
              over == heap[loansState[j]]
          IN  /\ ticksDone <= deferred.deferredMonths
              /\ ticksDone <= deferred.durationMonths
              /\ deferred.rate > 0
              /\ deferred.remainingCapital = deferred.amount
              /\ loanMonths[i].capitalRepaid = 0
              /\ loanMonths[i].interest = MonthInterest(deferred)
              /\ loanMonths[i].interest > 0
              /\ ticksDone <= over.deferredMonths
              /\ ticksDone > over.durationMonths
              /\ over.rate > 0
              /\ loanMonths[j].interest = 0

\* C16 as stated: in the tick of every month m <= deferredMonths, whatever the
\* loan's durationMonths, interest on the remaining capital is counted when
\* rate > 0 and deferredMonths > 0.
C16_DefermentAnyDuration ==
    [][IsTick =>
         \A i \in 1..Len(loansState) :
            LET before == heap[loansState[i]]
                after == heap'[loansState[i]]
            IN  m <= before.deferredMonths =>
                   /\ after.remainingCapital = before.remainingCapital
                   /\ loanMonths'[i].capitalRepaid = 0
                   /\ loanMonths'[i].interest
                         = IF before.rate > 0 /\ before.deferredMonths > 0
                           THEN MonthInterest(before)
                           ELSE 0
    ]_vars

\* C17: in the tick of a month m > durationMonths, a loan adds no interest and
\* no principal to the month's sums, and its remainingCapital is left
\* unchanged.
C17_NothingAfterDuration ==
    [][IsTick =>
         \A i \in 1..Len(loansState) :
            LET before == heap[loansState[i]]
                after == heap'[loansState[i]]
            IN  m > before.durationMonths =>
                   /\ loanMonths'[i].interest = 0
                   /\ loanMonths'[i].capitalRepaid = 0
                   /\ after.remainingCapital = before.remainingCapital
    ]_vars

\* A loan at 3% past its duration and its deferred months that still owes its
\* whole amount: the last tick counted no interest and no principal for it.
C17_Witness ==
    /\ pc = "loop"
    /\ \E i \in 1..Len(loansState) :
          LET loan == heap[loansState[i]]
          IN  /\ ticksDone > loan.durationMonths
              /\ ticksDone > loan.deferredMonths
              /\ loan.rate > 0
              /\ loan.remainingCapital = loan.amount
              /\ loan.amount > 0
              /\ loanMonths[i].interest = 0
              /\ loanMonths[i].capitalRepaid = 0

\* The rent after k yearly increases: monthlyRent * (1 + rentInflation/100)^k,
\* one multiplication per increase.
RECURSIVE RentOfYear(_)
RentOfYear(k) ==
    IF k = 0 THEN params.monthlyRent
    ELSE Mul(RentOfYear(k - 1), Num(1) + DivI(params.rentInflation, 100))

\* C18: the tick of month m multiplies the current rent by
\* (1 + rentInflation/100) when m is one of 13, 25, ..., 289 and leaves it
\* unchanged in any other month, then adds it to the accumulated rent; the rent
\* of months 12k+1..12k+12 is monthlyRent * (1 + rentInflation/100)^k, the
\* uninflated monthlyRent in months 1..12.
C18_RentInflatesYearly ==
    [][IsTick =>
         /\ currentRent' =
               IF m \in {12 * j + 1 : j \in 1..24}
               THEN Mul(currentRent, Num(1) + DivI(params.rentInflation, 100))
               ELSE currentRent
         /\ currentRent' = RentOfYear((m - 1) \div 12)
         /\ accumulatedRent' = accumulatedRent + currentRent'
    ]_vars

\* After the tick of month 13 with a positive rent inflation: twelve months at
\* monthlyRent and one at the raised rent have been accumulated.
C18_Witness ==
    /\ pc = "loop"
    /\ ticksDone = 13
    /\ params.rentInflation > 0
    /\ currentRent = Mul(params.monthlyRent,
                         Num(1) + DivI(params.rentInflation, 100))
    /\ currentRent > params.monthlyRent
    /\ accumulatedRent = 12 * params.monthlyRent + currentRent

\* One month of interest at savingsRate on a balance.
SavingsInterest(balance) ==
    Mul(balance, DivI(DivI(params.savingsRate, 100), 12))

\* C19: in every tick, a positive balance of tenant savings earns
\* savingsRate/100/12 on the balance held before the tick, added to the balance
\* and to the accumulated tenant interest, and the month's cashFlowDifference
\* is added to the balance afterwards, so that it earns nothing in that month;
\* a balance of zero or less earns nothing and only has the cashFlowDifference
\* added.
C19_InterestBeforeContribution ==
    [][IsTick =>
         IF tenantSavings > 0
         THEN /\ accumulatedTenantInterests'
                    = accumulatedTenantInterests + SavingsInterest(tenantSavings)
              /\ tenantSavings'
                    = tenantSavings + SavingsInterest(tenantSavings)
                      + cashFlowDifference'
         ELSE /\ accumulatedTenantInterests' = accumulatedTenantInterests
              /\ tenantSavings' = tenantSavings + cashFlowDifference'
    ]_vars

\* A tenant with a savings rate above 0 whose balance, once positive and
\* earning, was negative before the last tick and is negative after it.
C19_Witness ==
    /\ pc = "loop"
    /\ ticksDone >= 2
    /\ params.savingsRate > 0
    /\ accumulatedTenantInterests > 0
    /\ monthlyData[ticksDone - 1].tenantWealth < 0
    /\ tenantSavings < 0
    /\ cashFlowDifference < 0

C21_WealthSnapshot ==
    (pc = "loop" /\ ticksDone >= 1) =>
       LET point == monthlyData[ticksDone]
           costs == DivI(Mul(currentPropertyVal, params.agencyFeesPercent), 100)
                    + params.saleDiagnostics
           debt == CapitalOwed(Len(loansState))
       IN  /\ point.propertyValue = MathRound(currentPropertyVal)
           /\ point.sellingCosts = MathRound(costs)
           /\ point.netSalePrice = MathRound(currentPropertyVal - costs)
           /\ point.ownerWealth = MathRound(currentPropertyVal - costs - debt)

\* A point of an appreciating property with debt left: its selling costs are
\* above those of the purchase price, and its three figures are the roundings
\* of the unrounded ones.
C21_Witness ==
    /\ pc = "loop"
    /\ ticksDone >= 24
    /\ params.propertyAppreciation > 0
    /\ CapitalOwed(Len(loansState)) > 0
    /\ currentPropertyVal > params.propertyPrice
    /\ monthlyData[ticksDone].sellingCosts > monthlyData[1].sellingCosts
    /\ monthlyData[ticksDone].ownerWealth
          = MathRound(currentPropertyVal
                      - (DivI(Mul(currentPropertyVal, params.agencyFeesPercent), 100)
                         + params.saleDiagnostics)
                      - CapitalOwed(Len(loansState)))
    /\ monthlyData[ticksDone].netSalePrice
          = monthlyData[ticksDone].ownerWealth
            + monthlyData[ticksDone].debtRemaining


C23_IdsPairwiseDistinct ==
    storedData # undefined =>
       \A i, j \in DOMAIN storedData.customExpenses :
          i # j => storedData.customExpenses[i].id # storedData.customExpenses[j].id

\* C24: in every tick, the principal counted for a loan in the month's
\* principal repaid equals the decrease of the loan's remainingCapital in that
\* tick, the tick where the clamp to zero applies included.
C24_PrincipalIsCapitalDecrease ==
    [][IsTick =>
         \A i \in 1..Len(loansState) :
            loanMonths'[i].capitalRepaid
               = heap[loansState[i]].remainingCapital
                 - heap'[loansState[i]].remainingCapital
    ]_vars

\* The loans C25 is about: amount > 0, rate >= 0 and
\* 0 <= deferredMonths < durationMonths <= 300.
RegularLoan(loan) ==
    /\ loan.amount > 0
    /\ loan.rate >= 0
    /\ 0 <= loan.deferredMonths
    /\ loan.deferredMonths < loan.durationMonths
    /\ loan.durationMonths <= MAX_SIMULATION_MONTHS

\* C25 as stated: a regular loan's remainingCapital is positive after every
\* month before durationMonths, and 0 after month durationMonths and after
\* every later month.
C25_RepaidExactlyAtDuration ==
    (pc = "loop" /\ ticksDone >= 1) =>
       \A i \in 1..Len(loansState) :
          LET loan == heap[loansState[i]]
          IN  RegularLoan(loan) =>
                 /\ ticksDone < loan.durationMonths => loan.remainingCapital > 0
                 /\ ticksDone >= loan.durationMonths => loan.remainingCapital = 0

\* C26: after any sequence of handlePropertyPriceChange and handleApportChange
\* calls, two calls before the next render included, the standard loan's
\* amount is max(0, propertyPrice - apportPersonnel - ptz amount - boost
\* amount) of the resulting state, and the ptz and boost loans are unchanged.
C26_StandardAmountFollowsState ==
    lastHandler \in {"handlePropertyPriceChange", "handleApportChange"} =>
       LET p == storedData.params
       IN  /\ loanAmount(p.loans, "standard")
                = calculateStandardLoanAmount(p.propertyPrice, p.apportPersonnel,
                                              loanAmount(p.loans, "ptz"),
                                              loanAmount(p.loans, "boost"))
           /\ \A k \in DOMAIN p.loans :
                 p.loans[k].id # "standard" =>
                    p.loans[k] = initialValue.params.loans[k]

\* C27: once a confirmed handleReset has completed (the state update is
\* rendered and the storage effect has run), the state equals the defaults
\* and localStorage holds no item under the storage key.
C27_ResetClearsStorage ==
    (lastHandler = "handleReset" /\ Settled) =>
       /\ storedData = initialValue
       /\ localStorage = undefined

\* C28: once the target point and the break-even points are computed, an
\* owner ahead in wealth (in monthly cost) at the target point has a wealth
\* (monthly) break-even point, of a month not after the target point's; and
\* a break-even point is missing only when no month of the series satisfies
\* its predicate.
C28_WinnerHasBreakEven ==
    (pc = "done" /\ helperPc = "called") =>
       /\ isWinnerWealth =>
             /\ breakEvenWealth # undefined
             /\ breakEvenWealth.month <= targetData.month
       /\ isWinnerMonthly =>
             /\ breakEvenMonthly # undefined
             /\ breakEvenMonthly.month <= targetData.month
       /\ breakEvenWealth = undefined =>
             \A k \in DOMAIN monthlyData : ~wealthPredicate(monthlyData[k])
       /\ breakEvenMonthly = undefined =>
             \A k \in DOMAIN monthlyData : ~monthlyPredicate(monthlyData[k])

\* The owner is ahead in wealth at the target point and has been since an
\* earlier month that is not the first of the series.
C28_Witness ==
    /\ pc = "done"
    /\ helperPc = "called"
    /\ isWinnerWealth
    /\ breakEvenWealth # undefined
    /\ breakEvenWealth.month > 1
    /\ breakEvenWealth.month < targetData.month
    /\ targetData.month < MAX_SIMULATION_MONTHS

\* C29: whenever the wealth card computed for a target year of the holding
\* range shows the line 'Rentable a partir de l'annee Y (Mois M)', the
\* break-even month M is later than the target month targetYear * 12.
C29_BreakEvenShownIsAfterTarget ==
    (/\ pc = "done"
     /\ helperPc = "called"
     /\ targetYear \in MIN_HOLDING_YEARS..MAX_HOLDING_YEARS
     /\ WealthBreakEvenInfo(isWinnerWealth, breakEvenWealth).line = "Rentable") =>
       WealthBreakEvenInfo(isWinnerWealth, breakEvenWealth).month
          > targetYear * MONTHS_PER_YEAR

\* C30: runSimulation and the inline simulationData computation of index.tsx,
\* given the same params and totals, are in the same state at every tick
\* (property value, rent, each loan's remainingCapital, tenant savings, the
\* four accumulators) and have emitted the same monthlyData and yearlyData,
\* up to and including what they return.
C30_InlineEquivalent ==
    (inlineAbreast /\ pc # "idle") =>
        /\ inline.monthlyData = monthlyData
        /\ inline.yearlyData = yearlyData
        /\ inline.currentPropertyVal = currentPropertyVal
        /\ inline.currentRent = currentRent
        /\ inline.tenantSavings = tenantSavings
        /\ inline.accumulatedTenantInterests = accumulatedTenantInterests
        /\ inline.accumulatedOwnerCosts = accumulatedOwnerCosts
        /\ inline.accumulatedRunningCosts = accumulatedRunningCosts
        /\ inline.accumulatedRent = accumulatedRent
        /\ pc = "loop" =>
            /\ Len(inline.loansState) = Len(loansState)
            /\ \A k \in DOMAIN loansState :
                /\ inline.loansState[k].remainingCapital
                      = heap[loansState[k]].remainingCapital
                /\ inline.loansState[k].monthlyPayment
                      = heap[loansState[k]].monthlyPayment

\* Both computations have returned 300 monthly and 25 yearly points for an
\* appreciating property financed by several loans with inflating rent.
C30_Witness ==
    /\ inlineAbreast
    /\ pc = "done"
    /\ Len(inline.monthlyData) = MAX_SIMULATION_MONTHS
    /\ Len(inline.yearlyData) = 25
    /\ inline.monthlyData = monthlyData
    /\ Len(params.loans) >= 2
    /\ params.propertyAppreciation > 0
    /\ params.rentInflation > 0
    /\ inline.currentRent > params.monthlyRent
    /\ inline.monthlyData[1].debtRemaining > inline.monthlyData[300].debtRemaining

====
